---------------------------- MODULE Spec2Model ----------------------------
(***************************************************************************)
(* State-machine model of the image-masking editor: the App component      *)
(* (viewport/gesture engine, history stack, image slots, upscale), the     *)
(* CanvasLayer pointer handlers and the tool/property panels.              *)
(*                                                                         *)
(* Numbers.  JavaScript doubles are modelled on fixed grids: lengths and   *)
(* camera translate in whole pixels, camera and mask scale in thousandths  *)
(* (1000 = 1.0), normalised mask position in thousandths, pointer spread   *)
(* in 1/16 pixel.  A handler's arithmetic is carried out exactly and the   *)
(* value it stores is rounded to the grid (RDiv, MulDivR).                 *)
(*                                                                         *)
(* Heap.  Inner stroke arrays are JavaScript objects with identity: a      *)
(* configuration holds a sequence of stroke references and `heap' maps a   *)
(* reference to the points of that array, so that an in-place push is seen *)
(* through every configuration that shares the array.                      *)
(***************************************************************************)
EXTENDS Integers, Sequences, FiniteSets, TLC

VARIABLES
    maskConfig,      \* useState maskConfig (App)
    heap,            \* stroke arrays by reference
    past,            \* useState past
    future,          \* useState future
    isDragging,      \* useState isDragging (CanvasLayer)
    lastPos,         \* useState lastPos (CanvasLayer)
    img1,            \* useState img1 (foreground)
    img2,            \* useState img2 (background)
    canvasSize,      \* useState canvasSize
    upscalingLayer,  \* useState upscalingLayer: 0 is null
    isGenerating,    \* useState isGenerating
    showGenModal,    \* useState showGenModal
    prompt,          \* useState prompt: TRUE when non-empty
    tasks,           \* asynchronous work in flight (file reads, AI calls, image decodes)
    transform,       \* useState transform
    transformRef,    \* useRef transformRef.current
    pointers,        \* pointersRef.current: pointer id -> last client position
    capture,         \* DOM: the element each pressed pointer is captured by
    gestureStart,    \* gestureStartRef.current
    lastTap,         \* lastTapRef.current
    now,             \* Date.now()
    steps,           \* number of events handled so far
    last,            \* the event handled last and its inputs
    law,             \* bookkeeping for the checkpoint/mutate/undo/redo law
    canvas           \* the canvas element of CanvasLayer: its buffer and the effect's last deps

vars == << maskConfig, heap, past, future, isDragging, lastPos, img1, img2,
           canvasSize, upscalingLayer, isGenerating, showGenModal, prompt, tasks,
           transform, transformRef, pointers, capture, gestureStart, lastTap,
           now, steps, last, law, canvas >>

-----------------------------------------------------------------------------
(* Bounds of the exploration *)

MaxSteps == 4
MaxTasks == 2

-----------------------------------------------------------------------------
(* Arithmetic on the grids *)

Min2(a, b) == IF a <= b THEN a ELSE b
Max2(a, b) == IF a >= b THEN a ELSE b
Abs(a) == IF a < 0 THEN -a ELSE a

\* a / b rounded to the nearest integer, b > 0
RDiv(a, b) == (2 * a + b) \div (2 * b)

\* a * b / c rounded to the nearest integer, b >= 0, c > 0, without forming a * b
MulDivR(a, b, c) == (a \div c) * b + RDiv((a % c) * b, c)

RECURSIVE SqrtIter(_, _, _)
SqrtIter(n, lo, hi) ==
    IF lo >= hi THEN lo
    ELSE LET mid == (lo + hi + 1) \div 2
         IN  IF mid * mid <= n THEN SqrtIter(n, mid, hi) ELSE SqrtIter(n, lo, mid - 1)

ISqrt(n) == SqrtIter(n, 0, 46340)

DistUnit == 16

\* Math.hypot(dx, dy) in 1/DistUnit pixel
Hypot(dx, dy) == ISqrt(DistUnit * DistUnit * (dx * dx + dy * dy))

RECURSIVE SumOver(_, _)
SumOver(f, S) ==
    IF S = {} THEN 0
    ELSE LET i == CHOOSE j \in S : TRUE IN f[i] + SumOver(f, S \ {i})

Pt(a, b) == [x |-> a, y |-> b]

-----------------------------------------------------------------------------
(* Environment: the browser window and the viewport element *)

WinW == 1000
WinH == 800
RectLeft == 0
RectTop == 0

(* Data *)

NoImg == [w |-> 0, h |-> 0, src |-> "none"]

Tools == {"Hand", "Circle", "Rectangle", "Heart", "Stars", "Brush", "Pen",
          "Text", "Split", "Filmstrip"}

IsBrushType(t) == t = "Brush" \/ t = "Pen"

DEFAULT_MASK_CONFIG ==
    [type |-> "Circle", shape |-> "Circle", x |-> 500, y |-> 500, scale |-> 400,
     rotation |-> 0, text |-> "MASK", fontSize |-> 100, brushPoints |-> << >>,
     brushSize |-> 20, opacity |-> 100]

\* A configuration with its stroke references replaced by the arrays' contents
Deref(c, hp) ==
    [c EXCEPT !.brushPoints = [i \in DOMAIN c.brushPoints |-> hp[c.brushPoints[i]]]]

DerefAll(cs, hp) == [i \in DOMAIN cs |-> Deref(cs[i], hp)]

NoGesture ==
    [set |-> FALSE, transform |-> [x |-> 0, y |-> 0, scale |-> 0],
     center |-> Pt(0, 0), distance |-> 0]

NoLaw == [phase |-> "none", a |-> DEFAULT_MASK_CONFIG, b |-> DEFAULT_MASK_CONFIG]

\* an event: its kind, pointer or slot, point, number and text; drag tells where the
\* event stands in a drag of one pointer on the canvas and from is the canvas point
\* where that drag began (see DragAfter, DragFrom); alert is the text of the alert()
\* box the handler opened, "" when it opened none
Ev(o, i, q, k, str) ==
    [op |-> o, id |-> i, p |-> q, n |-> k, s |-> str, drag |-> "none",
     from |-> [x |-> 0, y |-> 0], alert |-> ""]

-----------------------------------------------------------------------------
(* Viewport logic: pure parts *)

MinScale == 50
MaxScale == 20000

\* Math.min(Math.max(s, 0.05), 20)
ClampScale(s) == Min2(Max2(s, MinScale), MaxScale)

\* getCentroid: centre and mean distance from the centre of a non-empty pointer map
getCentroid(ptrs) ==
    LET ids == DOMAIN ptrs
        n   == Cardinality(ids)
        c   == Pt(RDiv(SumOver([i \in ids |-> ptrs[i].x], ids), n),
                  RDiv(SumOver([i \in ids |-> ptrs[i].y], ids), n))
        d   == IF n > 1
               THEN RDiv(SumOver([i \in ids |-> Hypot(ptrs[i].x - c.x, ptrs[i].y - c.y)],
                                 ids), n)
               ELSE 0
    IN  [center |-> c, distance |-> d]

\* updateGestureStart: the new gestureStartRef.current
updateGestureStart(ptrs, tref) ==
    IF DOMAIN ptrs = {} THEN NoGesture
    ELSE LET g == getCentroid(ptrs)
         IN  [set |-> TRUE, transform |-> tref, center |-> g.center,
              distance |-> g.distance]

PaddingX == 48
PaddingY == 140

\* centerImage without the cap of the fit scale at 1
centerImageUncapped(width, height) ==
    LET fitScale == Min2(RDiv((WinW - PaddingX) * 1000, width),
                         RDiv((WinH - PaddingY) * 1000, height))
    IN  [x |-> RDiv(WinW * 1000 - width * fitScale, 2000),
         y |-> RDiv(WinH * 1000 - height * fitScale, 2000),
         scale |-> fitScale]

\* centerImage: the transform it sets
centerImage(width, height) ==
    LET availableWidth  == WinW - PaddingX
        availableHeight == WinH - PaddingY
        scaleX   == RDiv(availableWidth * 1000, width)
        scaleY   == RDiv(availableHeight * 1000, height)
        fitScale == Min2(Min2(scaleX, scaleY), 1000)
    IN  [x |-> RDiv(WinW * 1000 - width * fitScale, 2000),
         y |-> RDiv(WinH * 1000 - height * fitScale, 2000),
         scale |-> fitScale]

ZoomInMult == 1162
ZoomOutMult == 861

\* Math.exp(-Math.sign(deltaY) * ZOOM_SPEED) in thousandths
WheelMultiplier(deltaY) ==
    IF deltaY < 0 THEN ZoomInMult ELSE IF deltaY > 0 THEN ZoomOutMult ELSE 1000

\* handleWheel: the transform it sets, computed from the transform t it reads
WheelTransform(t, p, deltaY) ==
    LET currentScale == t.scale
        newScale == ClampScale(RDiv(currentScale * WheelMultiplier(deltaY), 1000))
        mouseX == p.x - RectLeft
        mouseY == p.y - RectTop
    IN  [x |-> mouseX - MulDivR(mouseX - t.x, newScale, currentScale),
         y |-> mouseY - MulDivR(mouseY - t.y, newScale, currentScale),
         scale |-> newScale]

TapWindow == 300

\* the double-tap test of handlePointerDown
IsDoubleTap(nowv, lastTapv) == nowv - lastTapv < TapWindow

\* handlePointerDown, scale below 1: zoom to 100% at the tap location
DoubleTapZoom(t, p) ==
    LET x == p.x - RectLeft
        y == p.y - RectTop
    IN  [x |-> x - MulDivR(x - t.x, 1000, t.scale),
         y |-> y - MulDivR(y - t.y, 1000, t.scale),
         scale |-> 1000]

\* faulty variant of PinchScale: the result is not clamped
PinchScaleUnclamped(g, count, curDistance) ==
    IF count > 1 /\ g.distance > 0
    THEN RDiv(g.transform.scale * curDistance, g.distance)
    ELSE g.transform.scale

\* handlePointerMove: the scale set from gesture baseline g and the current spread
PinchScale(g, count, curDistance) ==
    ClampScale(IF count > 1 /\ g.distance > 0
               THEN RDiv(g.transform.scale * curDistance, g.distance)
               ELSE g.transform.scale)

\* handlePointerMove: the transform set from gesture baseline g and the pointer map
PinchTransform(g, ptrs) ==
    LET current  == getCentroid(ptrs)
        newScale == PinchScale(g, Cardinality(DOMAIN ptrs), current.distance)
        scX == g.center.x - RectLeft
        scY == g.center.y - RectTop
        ccX == current.center.x - RectLeft
        ccY == current.center.y - RectTop
    IN  [x |-> ccX - MulDivR(scX - g.transform.x, newScale, g.transform.scale),
         y |-> ccY - MulDivR(scY - g.transform.y, newScale, g.transform.scale),
         scale |-> newScale]

\* handleZoomIn / handleZoomOut: the new scale
ZoomOutScaleUnclamped(s) == RDiv(s * 8, 10)

ZoomInScale(s) == Min2(RDiv(s * 125, 100), MaxScale)
ZoomOutScale(s) == Max2(RDiv(s * 8, 10), MinScale)

\* handleCenterView, were it to fit as well
CenterViewFit(t, size) == centerImage(size.width, size.height)

\* handleCenterView: the new translate
CenterView(t, size) ==
    [t EXCEPT !.x = RDiv(WinW * 1000 - size.width * t.scale, 2000),
              !.y = RDiv(WinH * 1000 - size.height * t.scale, 2000)]

\* handleUpscaleLayer: prev.scale / ratio, ratio = newWidth / oldWidth
UpscaleCameraScale(s, newWidth, oldWidth) == RDiv(s * oldWidth, newWidth)

-----------------------------------------------------------------------------
(* History: pure parts *)

\* saveHistory
SavePastDropped(p, cfg) == p

SavePast(p, cfg) == Append(p, cfg)
\* faulty variant of SaveFuture: the redo stack survives a checkpoint
SaveFutureKept(f) == f
SaveFuture(f) == << >>

\* undo
UndoConfig(p) == p[Len(p)]
UndoPast(p) == SubSeq(p, 1, Len(p) - 1)
UndoFuture(f, cfg) == << cfg >> \o f

\* redo
RedoConfig(f) == f[1]
RedoFuture(f) == SubSeq(f, 2, Len(f))
RedoPast(p, cfg) == Append(p, cfg)

\* faulty variant of SelectMaskConfig: a brush tool keeps the strokes
SelectMaskConfigKeepsStrokes(prev, type) ==
    [prev EXCEPT
       !.type = type,
       !.shape = IF type = "Hand" THEN prev.shape
                 ELSE IF IsBrushType(type) THEN "None" ELSE type,
       !.brushPoints = IF type = "Hand" \/ IsBrushType(type) THEN prev.brushPoints
                       ELSE << >>,
       !.x = IF type = "Hand" THEN prev.x ELSE 500,
       !.y = IF type = "Hand" THEN prev.y ELSE 500,
       !.scale = IF type = "Hand" THEN prev.scale ELSE DEFAULT_MASK_CONFIG.scale,
       !.rotation = IF type = "Hand" THEN prev.rotation ELSE 0]

\* faulty variant of SelectMaskConfig: Hand resets the placement like any other tool
SelectMaskConfigHandResets(prev, type) ==
    [prev EXCEPT
       !.type = type,
       !.shape = IF type = "Hand" THEN prev.shape
                 ELSE IF IsBrushType(type) THEN "None" ELSE type,
       !.brushPoints = IF type = "Hand" THEN prev.brushPoints ELSE << >>,
       !.x = 500,
       !.y = 500,
       !.scale = DEFAULT_MASK_CONFIG.scale,
       !.rotation = 0]

\* faulty variant of SelectMaskConfig: the shape follows the tool, brush tools included
SelectMaskConfigShapeIsTool(prev, type) ==
    [prev EXCEPT
       !.type = type,
       !.shape = IF type = "Hand" THEN prev.shape ELSE type,
       !.brushPoints = IF type = "Hand" THEN prev.brushPoints ELSE << >>,
       !.x = IF type = "Hand" THEN prev.x ELSE 500,
       !.y = IF type = "Hand" THEN prev.y ELSE 500,
       !.scale = IF type = "Hand" THEN prev.scale ELSE DEFAULT_MASK_CONFIG.scale,
       !.rotation = IF type = "Hand" THEN prev.rotation ELSE 0]

\* Toolbar onSelectMask: the configuration it sets
SelectMaskConfig(prev, type) ==
    LET isBrushTool == IsBrushType(type)
        isHandTool  == type = "Hand"
    IN  [prev EXCEPT
           !.type = type,
           !.shape = IF isHandTool THEN prev.shape
                     ELSE IF isBrushTool THEN "None" ELSE type,
           !.brushPoints = IF isHandTool THEN prev.brushPoints ELSE << >>,
           !.x = IF isHandTool THEN prev.x ELSE 500,
           !.y = IF isHandTool THEN prev.y ELSE 500,
           !.scale = IF isHandTool THEN prev.scale ELSE DEFAULT_MASK_CONFIG.scale,
           !.rotation = IF isHandTool THEN prev.rotation ELSE 0]

\* handleClearMask: the configuration it sets
ClearMaskConfig(cur, prev) ==
    LET currentType  == cur.type
        currentShape == IF IsBrushType(currentType) THEN "None" ELSE cur.shape
    IN  [DEFAULT_MASK_CONFIG EXCEPT
           !.type = currentType,
           !.shape = currentShape,
           !.brushSize = prev.brushSize,
           !.fontSize = prev.fontSize,
           !.brushPoints = << >>]

-----------------------------------------------------------------------------
(* CanvasLayer and upscale: pure parts *)

\* e.isPrimary: pointer 1 is the mouse or the first finger
IsPrimary(id) == id = 1

\* CanvasLayer getPos: client position -> canvas pixel, through the canvas element's
\* bounding rect, which the rendered transform t places and scales
getPos(p, t) ==
    Pt(MulDivR(p.x - RectLeft - t.x, 1000, t.scale),
       MulDivR(p.y - RectTop - t.y, 1000, t.scale))

\* CanvasLayer handlePointerDown, Brush or Pen: the stroke appended to brushPoints
NewStrokeEmpty(pos) == << >>

NewStroke(pos) == << pos >>

\* CanvasLayer is mounted only when an image is loaded
CanvasMounted == img1 # NoImg \/ img2 # NoImg

\* the element a pointer-down at client position p lands on
TargetAt(p) ==
    LET pos == getPos(p, transform)
    IN  IF /\ CanvasMounted
           /\ pos.x >= 0 /\ pos.x <= canvasSize.width
           /\ pos.y >= 0 /\ pos.y <= canvasSize.height
        THEN "canvas" ELSE "viewport"

\* CanvasLayer handlePointerMove, shape drag: the new normalised coordinate
DragCoordPixels(c, posv, lastv, extent) == c + (posv - lastv)

DragCoord(c, posv, lastv, extent) == c + RDiv((posv - lastv) * 1000, extent)

\* handleUpscaleLayer: a length multiplied by ratio = newWidth / oldWidth
RescaleKept(v, newWidth, oldWidth) == v

Rescale(v, newWidth, oldWidth) == RDiv(v * newWidth, oldWidth)

RescaleStroke(st, newWidth, oldWidth) ==
    [k \in DOMAIN st |-> Pt(Rescale(st[k].x, newWidth, oldWidth),
                            Rescale(st[k].y, newWidth, oldWidth))]

-----------------------------------------------------------------------------
(* CanvasLayer render effect: the compositor, pixel by pixel *)

\* The pixels of the canvas buffer that are followed, in canvas pixels
Pixels ==
    { Pt(10, 10), Pt(30, 10), Pt(200, 150), Pt(259, 150), Pt(261, 150),
      Pt(105, 150), Pt(105, 151), Pt(105, 158),
      Pt(400, 300), Pt(519, 300), Pt(521, 300) }

\* A pixel is the stack of paints laid on it, bottom first; << >> is transparent.
\* Alpha is in percent.
Paint(c, a) == [c |-> c, a |-> a]

\* globalCompositeOperation source-over of one paint onto a pixel
SourceOver(dst, c, a) ==
    IF a = 0 THEN dst
    ELSE IF a = 100 THEN << Paint(c, a) >>
    ELSE Append(dst, Paint(c, a))

InBuffer(p, width, height) == p.x >= 0 /\ p.x < width /\ p.y >= 0 /\ p.y < height

\* a canvas element's buffer right after creation: transparent everywhere
Blank == [p \in Pixels |-> << >>]

\* ctx.clearRect(0, 0, width, height)
ClearRectSkipped(buf, width, height) == buf

ClearRect(buf, width, height) ==
    [p \in Pixels |-> IF InBuffer(p, width, height) THEN << >> ELSE buf[p]]

\* the alpha channel of an image file, in percent: file "b" is a half-transparent PNG
ImageAlpha(img) == IF img.src = "b" THEN 50 ELSE 100

\* drawImage(img, x, y, img.width * scale, img.height * scale) with
\* scale = max(width / img.width, height / img.height), centred: the image pixel
\* that lands on canvas pixel p.  scale is sn / sd.
CoverSample(img, width, height, p) ==
    LET byWidth == width * img.h >= height * img.w
        sn == IF byWidth THEN width ELSE height
        sd == IF byWidth THEN img.w ELSE img.h
        ix == (2 * p.x * sd - width * sd + img.w * sn) \div (2 * sn)
        iy == (2 * p.y * sd - height * sd + img.h * sn) \div (2 * sn)
    IN  Paint(<< img.src, ix, iy >>, ImageAlpha(img))

\* A colour is a fill style, or the pixel (x, y) of an image: << name, x, y >>
Fill(style) == << style, 0, 0 >>

\* the checkerboard drawn when there is no background image
CellSize == 20
Checkerboard(p) ==
    IF ((p.y \div CellSize) + (p.x \div CellSize)) % 2 = 0
    THEN Fill("#334155") ELSE Fill("#1e293b")

\* step 1 of the effect: background image, cover-scaled, or the checkerboard
DrawBackground(dst, bg, width, height, p) ==
    IF bg # NoImg
    THEN LET s == CoverSample(bg, width, height, p) IN SourceOver(dst, s.c, s.a)
    ELSE SourceOver(dst, Checkerboard(p), 100)

\* The shapes whose outline is made of straight lines and circles, at quarter turns;
\* the outlines of Stars, Heart and Text (trigonometry, Bezier curves, glyphs) are
\* not rasterized here
ShapeRasterized(cfg) ==
    /\ cfg.shape \in {"None", "Hand", "Brush", "Pen", "Circle", "Rectangle", "Split", "Filmstrip"}
    /\ cfg.rotation % 90 = 0

\* ShapeFrame without the scale(scale, scale) of the shape transform
ShapeFrameUnscaled(cfg, width, height, p) ==
    Pt(2 * (p.x - RDiv(cfg.x * width, 1000)), 2 * (p.y - RDiv(cfg.y * height, 1000)))

\* The inverse of translate(x * width, y * height), rotate(rotation), scale(scale):
\* canvas pixel p in the shape's own frame, relative to the frame's centre
\* (width / 2, height / 2) and doubled
ShapeFrame(cfg, width, height, p) ==
    LET qx == p.x - RDiv(cfg.x * width, 1000)
        qy == p.y - RDiv(cfg.y * height, 1000)
        turn == (cfg.rotation \div 90) % 4
        rx == CASE turn = 0 -> qx [] turn = 1 -> qy [] turn = 2 -> 0 - qx [] OTHER -> 0 - qy
        ry == CASE turn = 0 -> qy [] turn = 1 -> 0 - qx [] turn = 2 -> 0 - qy [] OTHER -> qx
    IN  Pt(MulDivR(2 * rx, 1000, cfg.scale), MulDivR(2 * ry, 1000, cfg.scale))

\* drawFilmstrip: three frames and eight sprocket holes a side; b is doubled and
\* relative to the centre
drawFilmstrip(b, width, height) ==
    LET frame(k) == /\ 10 * Abs(b.x) <= 8 * width
                    /\ 1000 * (b.y + height) >= (150 + 600 * k) * height
                    /\ 1000 * (b.y + height) <= (650 + 600 * k) * height
        hole(i)  == /\ \/ b.x + width >= 20 /\ b.x + width <= 40
                       \/ width - b.x >= 20 /\ width - b.x <= 40
                    /\ 8 * (b.y + height) >= 2 * i * height + 160
                    /\ 8 * (b.y + height) <= 2 * i * height + 320
    IN  /\ Abs(b.x) <= width /\ Abs(b.y) <= height
        /\ \/ \E k \in 0..2 : frame(k)
           \/ \E i \in 0..7 : hole(i)

\* a mask that is opaque whatever the shape
ShapeCoversAll(cfg, width, height, p) == TRUE

\* drawMaskShape for the shape tools, under the shape transform: whether the mask
\* covers canvas pixel p
ShapeCovers(cfg, width, height, p) ==
    LET b == ShapeFrame(cfg, width, height, p)
        minDim == Min2(width, height)
    IN  CASE cfg.shape = "Circle" ->
                /\ Abs(b.x) <= minDim /\ Abs(b.y) <= minDim
                /\ b.x * b.x + b.y * b.y <= minDim * minDim
          [] cfg.shape = "Rectangle" -> Abs(b.x) <= width /\ Abs(b.y) <= height
          [] cfg.shape = "Split" ->
                /\ Abs(b.x) <= width /\ Abs(b.y) <= height
                /\ b.x * height + b.y * width <= 0
          [] cfg.shape = "Filmstrip" -> drawFilmstrip(b, width, height)
          [] OTHER -> FALSE

\* whether p is within size / 2 of the segment from a to b (round caps and joins);
\* a zero-length segment is pruned
NearSegment(p, a, b, size) ==
    LET dx == b.x - a.x
        dy == b.y - a.y
        ex == p.x - a.x
        ey == p.y - a.y
        fx == p.x - b.x
        fy == p.y - b.y
        along == ex * dx + ey * dy
        len2 == dx * dx + dy * dy
        close(ux, uy) == /\ Abs(ux) <= size /\ Abs(uy) <= size
                         /\ 4 * (ux * ux + uy * uy) <= size * size
    IN  /\ len2 > 0
        /\ p.x >= Min2(a.x, b.x) - size /\ p.x <= Max2(a.x, b.x) + size
        /\ p.y >= Min2(a.y, b.y) - size /\ p.y <= Max2(a.y, b.y) + size
        /\ IF along <= 0 THEN close(ex, ey)
           ELSE IF along >= len2 THEN close(fx, fy)
           ELSE 2 * MulDivR(Abs(ex * dy - ey * dx), DistUnit, ISqrt(len2)) <= DistUnit * size

\* drawMaskShape, case BRUSH / PEN: the width of the line
PenWidth == 4
LineWidthOfBrush(type, brushSize) == brushSize

LineWidth(type, brushSize) == IF type = "Pen" THEN PenWidth ELSE brushSize

\* drawMaskShape, case BRUSH / PEN: whether the strokes cover canvas pixel p
StrokesCover(type, brushPoints, brushSize, p) ==
    \E i \in DOMAIN brushPoints :
        LET stroke == brushPoints[i]
        IN  /\ Len(stroke) >= 1
            /\ \E k \in 1..(Len(stroke) - 1) :
                   NearSegment(p, stroke[k], stroke[k + 1], LineWidth(type, brushSize))

\* render effect, step B: strokes are drawn as Pen when the tool is Pen, as Brush otherwise
BrushStyle(type) == IF type = "Pen" THEN "Pen" ELSE "Brush"

\* the mask canvas at p, in percent: shape under its transform, then strokes, untransformed
MaskAlpha(cfg, width, height, p) ==
    IF \/ ShapeCovers(cfg, width, height, p)
       \/ /\ Len(cfg.brushPoints) > 0
          /\ StrokesCover(BrushStyle(cfg.type), cfg.brushPoints, cfg.brushSize, p)
    THEN 100 ELSE 0

\* step 3: the foreground, cover-scaled, kept where the mask is (destination-in)
DestinationIn(paint, maskAlpha) == Paint(paint.c, (paint.a * maskAlpha) \div 100)

\* step 4: the layer drawn over the main canvas with globalAlpha = opacity
OpacityIgnored(a, opacity) == a

GlobalAlpha(a, opacity) == RDiv(a * opacity, 100)

\* The return at "if (!imgForeground)": nothing is drawn over the background
ForegroundAlways(fg) == TRUE

ForegroundPresent(fg) == fg # NoImg

\* The whole effect on a buffer: cfg has its strokes dereferenced
RenderOnto(buf, width, height, fg, bg, cfg) ==
    LET cleared == ClearRect(buf, width, height)
    IN  [p \in Pixels |->
            IF ~InBuffer(p, width, height) THEN << >>
            ELSE LET back == DrawBackground(cleared[p], bg, width, height, p)
                 IN  IF ~ForegroundPresent(fg) THEN back
                     ELSE LET layer == DestinationIn(CoverSample(fg, width, height, p),
                                                     MaskAlpha(cfg, width, height, p))
                          IN  SourceOver(back, layer.c, GlobalAlpha(layer.a, cfg.opacity))]

\* the effect's dependency array [width, height, imgForeground, imgBackground,
\* maskConfig], the configuration by value
Deps == << canvasSize.width, canvasSize.height, img1, img2, Deref(maskConfig, heap) >>

\* no canvas element yet
NoCanvas == [width |-> 0, height |-> 0, deps |-> << >>, data |-> Blank]

\* The canvas element after the commit and the effect: a new width or height
\* attribute resets the buffer, then the effect draws
Composite(cv) ==
    LET kept == IF cv.width = canvasSize.width /\ cv.height = canvasSize.height
                THEN cv.data ELSE Blank
    IN  [width |-> canvasSize.width, height |-> canvasSize.height, deps |-> Deps,
         data |-> RenderOnto(kept, canvasSize.width, canvasSize.height, img1, img2,
                             Deref(maskConfig, heap))]

-----------------------------------------------------------------------------
(* Initial state: after construction and the mount effects *)

\* the "Initial Fit" effect with no image loaded
InitialCanvasSize == [width |-> WinW, height |-> (WinH * 7) \div 10]
InitialTransform ==
    [x |-> (WinW - InitialCanvasSize.width) \div 2,
     y |-> ((WinH * 6) \div 10 - InitialCanvasSize.height) \div 2,
     scale |-> 1000]

InitNow == 1000

Init ==
    /\ maskConfig = DEFAULT_MASK_CONFIG
    /\ heap = << >>
    /\ past = << >>
    /\ future = << >>
    /\ isDragging = FALSE
    /\ lastPos = Pt(0, 0)
    /\ img1 = NoImg
    /\ img2 = NoImg
    /\ canvasSize = InitialCanvasSize
    /\ upscalingLayer = 0
    /\ isGenerating = FALSE
    /\ showGenModal = FALSE
    /\ prompt = FALSE
    /\ tasks = << >>
    /\ transform = InitialTransform
    /\ transformRef = InitialTransform
    /\ pointers = << >>
    /\ capture = << >>
    /\ gestureStart = NoGesture
    /\ lastTap = 0
    /\ now = InitNow
    /\ steps = 0
    /\ last = Ev("init", 0, Pt(0, 0), 0, "")
    /\ law = NoLaw
    /\ canvas = NoCanvas

-----------------------------------------------------------------------------
(* Bookkeeping shared by the actions *)

imgVars  == << img1, img2, canvasSize, upscalingLayer >>
genVars  == << isGenerating, showGenModal, prompt >>
histVars == << past, future >>
dragVars == << isDragging, lastPos >>
ptrVars  == << pointers, capture, gestureStart, lastTap, now >>

\* where event ev stands in a drag: "drag" from the pointer-down that starts a drawing
\* or shape drag through the moves of that pointer, "done" at its pointer-up or
\* pointer-leave, "undone" at an undo that follows at once, "none" for anything else
DragAfter(ev) ==
    CASE ev.op = "down" /\ ev.s = "canvas" /\ IsPrimary(ev.id)
                        /\ maskConfig.type # "Hand"                    -> "drag"
      [] ev.op = "move" /\ last.drag = "drag" /\ ev.id = last.id        -> "drag"
      [] ev.op \in {"up", "leave"} /\ last.drag = "drag"
                                  /\ ev.id = last.id                   -> "done"
      [] ev.op = "undo" /\ last.drag = "done"                          -> "undone"
      [] OTHER                                                         -> "none"

\* the canvas point of the pointer-down that began the drag event ev belongs to
DragFrom(ev) ==
    CASE DragAfter(ev) = "drag" /\ ev.op = "down" -> getPos(ev.p, transform)
      [] DragAfter(ev) \in {"drag", "done"}      -> last.from
      [] OTHER                                   -> Pt(0, 0)

\* a pointer-move is numbered within the run of moves of its pointer
MoveNumber(ev) == IF last.op = "move" /\ last.id = ev.id THEN last.n + 1 ELSE 1

Step(ev) ==
    /\ steps < MaxSteps
    /\ steps' = steps + 1
    /\ last' = [ev EXCEPT !.drag = DragAfter(ev), !.from = DragFrom(ev),
                          !.n = IF ev.op = "move" THEN MoveNumber(ev) ELSE @]
    /\ canvas' = canvas

\* the law bookkeeping after an event of the given kind
LawAfter(kind) ==
    LET post == Deref(maskConfig', heap')
    IN  CASE kind = "save"   -> [phase |-> "saved", a |-> Deref(maskConfig, heap), b |-> post]
          [] kind = "mutate" -> IF law.phase = "saved" THEN [law EXCEPT !.b = post] ELSE NoLaw
          [] kind = "undo"   -> IF law.phase = "saved" THEN [law EXCEPT !.phase = "undone"]
                                ELSE NoLaw
          [] kind = "redo"   -> IF law.phase = "undone" THEN [law EXCEPT !.phase = "redone"]
                                ELSE NoLaw
          [] OTHER           -> law

\* A handler that sets React state causes a render; the passive effect left pending by
\* the previous render (transformRef.current = transform) is flushed before it.
Rendered == transformRef' = transform
NotRendered == transformRef' = transformRef

\* The passive effect of the latest render runs: transformRef.current = transform
SyncTransformRef ==
    /\ transformRef # transform
    /\ transformRef' = transform
    /\ UNCHANGED << maskConfig, heap, past, future, isDragging, lastPos, img1, img2,
                    canvasSize, upscalingLayer, isGenerating, showGenModal, prompt,
                    tasks, transform, pointers, capture, gestureStart, lastTap, now,
                    steps, last, law, canvas >>

\* The render effect of CanvasLayer runs: a dependency changed since it last ran
RenderEffect ==
    /\ CanvasMounted
    /\ ShapeRasterized(maskConfig)
    /\ canvas.deps # Deps
    /\ canvas' = Composite(canvas)
    /\ UNCHANGED << maskConfig, heap, past, future, isDragging, lastPos, img1, img2,
                    canvasSize, upscalingLayer, isGenerating, showGenModal, prompt,
                    tasks, transform, transformRef, pointers, capture, gestureStart,
                    lastTap, now, steps, last, law >>

-----------------------------------------------------------------------------
(* Viewport handlers of App *)

PutPointer(ptrs, id, p) ==
    [i \in DOMAIN ptrs \cup {id} |-> IF i = id THEN p ELSE ptrs[i]]
DropPointer(ptrs, id) == [i \in DOMAIN ptrs \ {id} |-> ptrs[i]]

\* handleWheel (native listener on the viewport)
handleWheel(p, deltaY) ==
    /\ Step(Ev("wheel", 0, p, deltaY, ""))
    /\ IF isGenerating \/ showGenModal
       THEN UNCHANGED transform /\ NotRendered
       ELSE transform' = WheelTransform(transformRef, p, deltaY) /\ Rendered
    /\ UNCHANGED << maskConfig, heap, histVars, dragVars, imgVars, genVars, tasks,
                    ptrVars >>
    /\ law' = LawAfter("other")

\* pointer-down on the viewport or, bubbling, on the canvas inside it:
\* CanvasLayer.handlePointerDown, then App.handlePointerDown
PointerDown(id, p, dt) ==
    LET tgt     == TargetAt(p)
        drawing == tgt = "canvas" /\ maskConfig.type # "Hand" /\ IsPrimary(id)
        pos     == getPos(p, transform)
        ptrs    == PutPointer(pointers, id, p)
        nowv    == now + dt
        single  == Cardinality(DOMAIN ptrs) = 1
        dbl     == single /\ IsDoubleTap(nowv, lastTap)
    IN  /\ id \notin DOMAIN capture
        /\ Step(Ev("down", id, p, dt, tgt))
        \* CanvasLayer.handlePointerDown
        /\ IF drawing
           THEN /\ past' = SavePast(past, maskConfig)
                /\ future' = SaveFuture(future)
                /\ isDragging' = TRUE
                /\ lastPos' = pos
                /\ IF IsBrushType(maskConfig.type)
                   THEN /\ heap' = Append(heap, NewStroke(pos))
                        /\ maskConfig' = [maskConfig EXCEPT
                                            !.brushPoints = Append(@, Len(heap) + 1)]
                   ELSE UNCHANGED << heap, maskConfig >>
           ELSE UNCHANGED << past, future, isDragging, lastPos, heap, maskConfig >>
        \* App.handlePointerDown
        /\ capture' = PutPointer(capture, id, tgt)
        /\ pointers' = ptrs
        /\ gestureStart' = updateGestureStart(ptrs, transformRef)
        /\ now' = nowv
        /\ lastTap' = IF single THEN nowv ELSE lastTap
        /\ transform' = IF dbl
                        THEN IF transformRef.scale < 1000
                             THEN DoubleTapZoom(transformRef, p)
                             ELSE centerImage(canvasSize.width, canvasSize.height)
                        ELSE transform
        /\ IF drawing \/ dbl THEN Rendered ELSE NotRendered
        /\ UNCHANGED << imgVars, genVars, tasks >>
        /\ law' = LawAfter(IF drawing THEN "save" ELSE "other")

\* App.handlePointerMove returns before panning: one pointer and a tool other than Hand
OnePointerAlsoPans(pointersCount, type) == FALSE

OnePointerNoPan(pointersCount, type) == pointersCount = 1 /\ type # "Hand"

\* pointer-move of a pressed pointer: CanvasLayer.handlePointerMove when the pointer
\* is captured by the canvas, then App.handlePointerMove
PointerMove(id, p) ==
    LET onCanvas == capture[id] = "canvas"
        drawing  == onCanvas /\ isDragging
        brush    == IsBrushType(maskConfig.type)
        pos      == getPos(p, transform)
        n        == Len(maskConfig.brushPoints)
        ptrs     == PutPointer(pointers, id, p)
        panning  == gestureStart.set
                    /\ ~OnePointerNoPan(Cardinality(DOMAIN ptrs), maskConfig.type)
        mutates  == drawing /\ (~brush \/ n > 0)
    IN  /\ id \in DOMAIN capture
        /\ Step(Ev("move", id, p, 0, capture[id]))
        \* CanvasLayer.handlePointerMove
        /\ IF drawing /\ brush /\ n > 0
           THEN /\ heap' = [heap EXCEPT ![maskConfig.brushPoints[n]] = Append(@, pos)]
                /\ UNCHANGED << maskConfig, lastPos >>
           ELSE IF drawing /\ ~brush
           THEN /\ maskConfig' = [maskConfig EXCEPT
                     !.x = DragCoord(@, pos.x, lastPos.x, canvasSize.width),
                     !.y = DragCoord(@, pos.y, lastPos.y, canvasSize.height)]
                /\ lastPos' = pos
                /\ UNCHANGED heap
           ELSE UNCHANGED << heap, maskConfig, lastPos >>
        \* App.handlePointerMove
        /\ pointers' = ptrs
        /\ transform' = IF panning THEN PinchTransform(gestureStart, ptrs) ELSE transform
        /\ IF mutates \/ panning THEN Rendered ELSE NotRendered
        /\ UNCHANGED << histVars, isDragging, imgVars, genVars, tasks, capture,
                        gestureStart, lastTap, now >>
        /\ law' = LawAfter(IF mutates THEN "mutate" ELSE "other")

\* pointer-move of the mouse with no button pressed (the primary pointer, not in
\* pointersRef): CanvasLayer.handlePointerMove when it is over the canvas, then
\* App.handlePointerMove, which returns at once
PointerHover(p) ==
    LET drawing == TargetAt(p) = "canvas" /\ isDragging
        brush   == IsBrushType(maskConfig.type)
        pos     == getPos(p, transform)
        n       == Len(maskConfig.brushPoints)
        mutates == drawing /\ (~brush \/ n > 0)
    IN  /\ 1 \notin DOMAIN capture
        /\ Step(Ev("hover", 1, p, 0, TargetAt(p)))
        /\ IF drawing /\ brush /\ n > 0
           THEN /\ heap' = [heap EXCEPT ![maskConfig.brushPoints[n]] = Append(@, pos)]
                /\ UNCHANGED << maskConfig, lastPos >>
           ELSE IF drawing /\ ~brush
           THEN /\ maskConfig' = [maskConfig EXCEPT
                     !.x = DragCoord(@, pos.x, lastPos.x, canvasSize.width),
                     !.y = DragCoord(@, pos.y, lastPos.y, canvasSize.height)]
                /\ lastPos' = pos
                /\ UNCHANGED heap
           ELSE UNCHANGED << heap, maskConfig, lastPos >>
        /\ IF mutates THEN Rendered ELSE NotRendered
        /\ UNCHANGED << histVars, isDragging, imgVars, genVars, tasks, transform,
                        ptrVars >>
        /\ law' = LawAfter(IF mutates THEN "mutate" ELSE "other")

\* pointer-up, pointer-cancel or pointer-leave of a pressed pointer:
\* CanvasLayer.handlePointerUp (bound to up and leave only), then App.handlePointerUp
PointerUp(id, kind) ==
    LET onCanvas == capture[id] = "canvas"
        ends     == onCanvas /\ kind # "cancel" /\ isDragging
        ptrs     == DropPointer(pointers, id)
    IN  /\ id \in DOMAIN capture
        /\ Step(Ev(kind, id, pointers[id], 0, capture[id]))
        /\ isDragging' = IF ends THEN FALSE ELSE isDragging
        /\ pointers' = ptrs
        /\ capture' = DropPointer(capture, id)
        /\ gestureStart' = updateGestureStart(ptrs, transformRef)
        /\ IF ends THEN Rendered ELSE NotRendered
        /\ UNCHANGED << maskConfig, heap, histVars, lastPos, imgVars, genVars, tasks,
                        transform, lastTap, now >>
        /\ law' = LawAfter("other")

\* handleZoomIn
handleZoomIn ==
    /\ Step(Ev("zoomIn", 0, Pt(0, 0), transform.scale, ""))
    /\ transform' = [transform EXCEPT !.scale = ZoomInScale(@)]
    /\ Rendered
    /\ UNCHANGED << maskConfig, heap, histVars, dragVars, imgVars, genVars, tasks,
                    ptrVars >>
    /\ law' = LawAfter("other")

\* handleZoomOut
handleZoomOut ==
    /\ Step(Ev("zoomOut", 0, Pt(0, 0), 0, ""))
    /\ transform' = [transform EXCEPT !.scale = ZoomOutScale(@)]
    /\ Rendered
    /\ UNCHANGED << maskConfig, heap, histVars, dragVars, imgVars, genVars, tasks,
                    ptrVars >>
    /\ law' = LawAfter("other")

\* handleFitToScreen
handleFitToScreen ==
    /\ Step(Ev("fit", 0, Pt(0, 0), 0, ""))
    /\ transform' = centerImage(canvasSize.width, canvasSize.height)
    /\ Rendered
    /\ UNCHANGED << maskConfig, heap, histVars, dragVars, imgVars, genVars, tasks,
                    ptrVars >>
    /\ law' = LawAfter("other")

\* handleCenterView
handleCenterView ==
    /\ Step(Ev("center", 0, Pt(0, 0), 0, ""))
    /\ transform' = CenterView(transform, canvasSize)
    /\ Rendered
    /\ UNCHANGED << maskConfig, heap, histVars, dragVars, imgVars, genVars, tasks,
                    ptrVars >>
    /\ law' = LawAfter("other")

-----------------------------------------------------------------------------
(* History, toolbar and properties panel *)

NoPt == Pt(0, 0)

\* a panel handler that only calls onHistorySave: slider mouse-down / touch-start,
\* text input focus
PanelSave(what) ==
    /\ maskConfig.type \notin {"None", "Hand"}
    /\ what = "text" => maskConfig.type = "Text"
    /\ Step(Ev("panelSave", 0, NoPt, 0, what))
    /\ past' = SavePast(past, maskConfig)
    /\ future' = SaveFuture(future)
    /\ Rendered
    /\ UNCHANGED << maskConfig, heap, dragVars, imgVars, genVars, tasks, transform,
                    ptrVars >>
    /\ law' = LawAfter("save")

\* the sliders and the text input the panel shows for the current tool
PanelKeys(type) ==
    IF type \in {"None", "Hand"} THEN {}
    ELSE {"opacity"}
         \cup (IF IsBrushType(type) THEN {"brushSize"} ELSE {})
         \cup (IF type = "Text" THEN {"fontSize", "text"} ELSE {})
         \cup (IF ~IsBrushType(type) /\ type # "Text" THEN {"scale", "rotation"} ELSE {})

\* PropertiesPanel.handleChange: onChange({ ...config, [key]: value })
handleChange(config, key, value) ==
    CASE key = "scale"     -> [config EXCEPT !.scale = value]
      [] key = "rotation"  -> [config EXCEPT !.rotation = value]
      [] key = "opacity"   -> [config EXCEPT !.opacity = value]
      [] key = "brushSize" -> [config EXCEPT !.brushSize = value]
      [] key = "fontSize"  -> [config EXCEPT !.fontSize = value]
      [] key = "text"      -> [config EXCEPT !.text = value]

PanelChange(key, value) ==
    /\ key \in PanelKeys(maskConfig.type)
    /\ Step(Ev("panelChange", 0, NoPt, 0, key))
    /\ maskConfig' = handleChange(maskConfig, key, value)
    /\ Rendered
    /\ UNCHANGED << heap, histVars, dragVars, imgVars, genVars, tasks, transform,
                    ptrVars >>
    /\ law' = LawAfter("mutate")

\* Toolbar onSelectMask
onSelectMask(type) ==
    /\ Step(Ev("select", 0, NoPt, 0, type))
    /\ past' = SavePast(past, maskConfig)
    /\ future' = SaveFuture(future)
    /\ maskConfig' = SelectMaskConfig(maskConfig, type)
    /\ Rendered
    /\ UNCHANGED << heap, dragVars, imgVars, genVars, tasks, transform, ptrVars >>
    /\ law' = LawAfter("save")

\* handleClearMask (the panel's onClear)
handleClearMask ==
    /\ maskConfig.type \notin {"None", "Hand"}
    /\ Step(Ev("clear", 0, NoPt, 0, ""))
    /\ past' = SavePast(past, maskConfig)
    /\ future' = SaveFuture(future)
    /\ maskConfig' = ClearMaskConfig(maskConfig, maskConfig)
    /\ Rendered
    /\ UNCHANGED << heap, dragVars, imgVars, genVars, tasks, transform, ptrVars >>
    /\ law' = LawAfter("save")

\* faulty variant of undo: the empty-past test is missing where future is set
UndoUnguarded ==
    /\ Step(Ev("undo", 0, NoPt, Len(past), ""))
    /\ future' = UndoFuture(future, maskConfig)
    /\ IF Len(past) = 0
       THEN UNCHANGED << maskConfig, past >>
       ELSE /\ maskConfig' = UndoConfig(past)
            /\ past' = UndoPast(past)
    /\ Rendered
    /\ UNCHANGED << heap, dragVars, imgVars, genVars, tasks, transform, ptrVars >>
    /\ law' = LawAfter("undo")

\* undo (the header button is disabled while past is empty; the function tests again)
undo ==
    /\ Step(Ev("undo", 0, NoPt, Len(past), ""))
    /\ IF Len(past) = 0
       THEN UNCHANGED << maskConfig, past, future >> /\ NotRendered
       ELSE /\ future' = UndoFuture(future, maskConfig)
            /\ maskConfig' = UndoConfig(past)
            /\ past' = UndoPast(past)
            /\ Rendered
    /\ UNCHANGED << heap, dragVars, imgVars, genVars, tasks, transform, ptrVars >>
    /\ law' = LawAfter("undo")

\* redo (the header button is disabled while future is empty; the function tests again)
redo ==
    /\ Step(Ev("redo", 0, NoPt, Len(future), ""))
    /\ IF Len(future) = 0
       THEN UNCHANGED << maskConfig, past, future >> /\ NotRendered
       ELSE /\ past' = RedoPast(past, maskConfig)
            /\ maskConfig' = RedoConfig(future)
            /\ future' = RedoFuture(future)
            /\ Rendered
    /\ UNCHANGED << heap, dragVars, imgVars, genVars, tasks, transform, ptrVars >>
    /\ law' = LawAfter("redo")

\* handleResetView: rotation back to 0
handleResetView ==
    /\ Step(Ev("resetView", 0, NoPt, 0, ""))
    /\ maskConfig' = [maskConfig EXCEPT !.rotation = 0]
    /\ Rendered
    /\ UNCHANGED << heap, histVars, dragVars, imgVars, genVars, tasks, transform,
                    ptrVars >>
    /\ law' = LawAfter("mutate")

\* handleSwapLayers
handleSwapLayers ==
    /\ Step(Ev("swap", 0, NoPt, 0, ""))
    /\ past' = SavePast(past, maskConfig)
    /\ future' = SaveFuture(future)
    /\ img1' = img2
    /\ img2' = img1
    /\ Rendered
    /\ UNCHANGED << maskConfig, heap, dragVars, canvasSize, upscalingLayer, genVars,
                    tasks, transform, ptrVars >>
    /\ law' = LawAfter("save")

-----------------------------------------------------------------------------
(* Images: upload, upscale, background generation.  Asynchronous work is a task  *)
(* in `tasks'; a task carries what its closure captured when it was started.     *)

Task(kind, stage, target, img, res, sawFg) ==
    [kind |-> kind, stage |-> stage, target |-> target, img |-> img, res |-> res,
     sawFg |-> sawFg]

RemoveAt(q, i) == SubSeq(q, 1, i - 1) \o SubSeq(q, i + 1, Len(q))

\* handleImageUpload: the file is read and decoded asynchronously
UploadStart(target, file) ==
    /\ Len(tasks) < MaxTasks
    /\ Step(Ev("upload", target, NoPt, 0, file.src))
    /\ tasks' = Append(tasks, Task("upload", "decode", target, NoImg, file, img1 # NoImg))
    /\ NotRendered
    /\ UNCHANGED << maskConfig, heap, histVars, dragVars, imgVars, genVars, transform,
                    ptrVars >>
    /\ law' = LawAfter("other")

\* handleImageUpload: img.onload
UploadLoad(i) ==
    LET t == tasks[i]
        fits == t.target = 1 \/ ~t.sawFg
    IN  /\ t.kind = "upload"
        /\ Step(Ev("uploadLoad", t.target, NoPt, 0, t.res.src))
        /\ tasks' = RemoveAt(tasks, i)
        /\ img1' = IF t.target = 1 THEN t.res ELSE img1
        /\ img2' = IF t.target = 2 THEN t.res ELSE img2
        /\ canvasSize' = IF fits THEN [width |-> t.res.w, height |-> t.res.h]
                         ELSE canvasSize
        /\ transform' = IF fits THEN centerImage(t.res.w, t.res.h) ELSE transform
        /\ Rendered
        /\ UNCHANGED << maskConfig, heap, histVars, dragVars, upscalingLayer, genVars,
                        ptrVars >>
        /\ law' = LawAfter("other")

\* handleUpscaleLayer up to the await
UpscaleStart(target) ==
    LET img == IF target = 1 THEN img1 ELSE img2
    IN  /\ img # NoImg
        /\ upscalingLayer # target
        /\ Len(tasks) < MaxTasks
        /\ Step(Ev("upscale", target, NoPt, 0, img.src))
        /\ upscalingLayer' = target
        /\ tasks' = Append(tasks, Task("upscale", "api", target, img, NoImg, FALSE))
        /\ Rendered
        /\ UNCHANGED << maskConfig, heap, histVars, dragVars, img1, img2, canvasSize,
                        genVars, transform, ptrVars >>
        /\ law' = LawAfter("other")

\* the alert() of a failed AI call: handleUpscaleLayer, handleGenerateBackground
FailureAlertSilent(kind) == ""

FailureAlert(kind) ==
    IF kind = "upscale" THEN "Upscale failed. Please try again." ELSE "Failed."

\* the event of an AI call that resolved with result for slot target
Resolved(op, kind, target, result) ==
    [Ev(op, target, NoPt, 0, result.src) EXCEPT
       !.alert = IF result = NoImg THEN FailureAlert(kind) ELSE ""]

\* handleUpscaleLayer after the await: upscaleImage resolved with result
\* (NoImg is null)
UpscaleResolve(i, result) ==
    LET t == tasks[i]
    IN  /\ t.kind = "upscale" /\ t.stage = "api"
        /\ Step(Resolved("upscaleResolve", "upscale", t.target, result))
        /\ IF result = NoImg
           THEN /\ upscalingLayer' = 0
                /\ tasks' = RemoveAt(tasks, i)
                /\ Rendered
           ELSE /\ tasks' = [tasks EXCEPT ![i].stage = "decode", ![i].res = result]
                /\ UNCHANGED upscalingLayer
                /\ NotRendered
        /\ UNCHANGED << maskConfig, heap, histVars, dragVars, img1, img2, canvasSize,
                        genVars, transform, ptrVars >>
        /\ law' = LawAfter("other")

\* handleUpscaleLayer: the rescaled configuration and the stroke arrays map() creates
UpscaleConfig(prev, hp, newWidth, oldWidth) ==
    [prev EXCEPT
       !.fontSize = Rescale(@, newWidth, oldWidth),
       !.brushSize = Rescale(@, newWidth, oldWidth),
       !.brushPoints = [k \in DOMAIN @ |-> Len(hp) + k]]

UpscaleHeap(prev, hp, newWidth, oldWidth) ==
    hp \o [k \in DOMAIN prev.brushPoints |->
              RescaleStroke(hp[prev.brushPoints[k]], newWidth, oldWidth)]

\* handleUpscaleLayer, newImg.onload: the slot the new image of task t is stored into
UpscaleSlotOfSource(t) == IF t.img = img2 THEN 2 ELSE 1

UpscaleSlot(t) == t.target

\* handleUpscaleLayer: newImg.onload
UpscaleLoad(i) ==
    LET t == tasks[i]
    IN  /\ t.kind = "upscale" /\ t.stage = "decode"
        /\ Step(Ev("upscaleLoad", t.target, NoPt, 0, t.res.src))
        /\ tasks' = RemoveAt(tasks, i)
        /\ upscalingLayer' = 0
        /\ IF UpscaleSlot(t) = 1
           THEN /\ img1' = t.res
                /\ canvasSize' = [width |-> t.res.w, height |-> t.res.h]
                /\ maskConfig' = UpscaleConfig(maskConfig, heap, t.res.w, t.img.w)
                /\ heap' = UpscaleHeap(maskConfig, heap, t.res.w, t.img.w)
                /\ transform' = [transform EXCEPT
                                   !.scale = UpscaleCameraScale(@, t.res.w, t.img.w)]
                /\ UNCHANGED img2
           ELSE /\ img2' = t.res
                /\ UNCHANGED << img1, canvasSize, maskConfig, heap, transform >>
        /\ Rendered
        /\ UNCHANGED << histVars, dragVars, genVars, ptrVars >>
        /\ law' = LawAfter(IF UpscaleSlot(t) = 1 THEN "mutate" ELSE "other")

\* handleUpscaleLayer: the returned data does not decode (error event of newImg);
\* newImg has no onerror handler, so no state is set
UpscaleError(i) ==
    LET t == tasks[i]
    IN  /\ t.kind = "upscale" /\ t.stage = "decode"
        /\ Step(Ev("upscaleError", t.target, NoPt, 0, t.res.src))
        /\ tasks' = RemoveAt(tasks, i)
        /\ NotRendered
        /\ UNCHANGED << maskConfig, heap, histVars, dragVars, imgVars, genVars,
                        transform, ptrVars >>
        /\ law' = LawAfter("other")

\* handleUpscaleLayer when getImageBase64 returns "" (no 2d context): the
\* if (base64) branch is not entered, no call is made and nothing clears the
\* indicator set at the top of the handler
UpscaleNoBase64(target) ==
    LET img == IF target = 1 THEN img1 ELSE img2
    IN  /\ img # NoImg
        /\ upscalingLayer # target
        /\ Step(Ev("upscaleNoBase64", target, NoPt, 0, img.src))
        /\ upscalingLayer' = target
        /\ Rendered
        /\ UNCHANGED << maskConfig, heap, histVars, dragVars, img1, img2, canvasSize,
                        genVars, tasks, transform, ptrVars >>
        /\ law' = LawAfter("other")

\* the AI modal: open, close, prompt text
SetGenModal(open) ==
    /\ showGenModal # open
    /\ Step(Ev("genModal", 0, NoPt, 0, ""))
    /\ showGenModal' = open
    /\ Rendered
    /\ UNCHANGED << maskConfig, heap, histVars, dragVars, imgVars, isGenerating, prompt,
                    tasks, transform, ptrVars >>
    /\ law' = LawAfter("other")

SetPrompt(nonEmpty) ==
    /\ showGenModal
    /\ prompt # nonEmpty
    /\ Step(Ev("prompt", 0, NoPt, 0, ""))
    /\ prompt' = nonEmpty
    /\ Rendered
    /\ UNCHANGED << maskConfig, heap, histVars, dragVars, imgVars, isGenerating,
                    showGenModal, tasks, transform, ptrVars >>
    /\ law' = LawAfter("other")

\* handleGenerateBackground up to the await
GenerateStart ==
    /\ showGenModal /\ prompt /\ ~isGenerating
    /\ Len(tasks) < MaxTasks
    /\ Step(Ev("generate", 2, NoPt, 0, ""))
    /\ isGenerating' = TRUE
    /\ tasks' = Append(tasks, Task("generate", "api", 2, NoImg, NoImg, FALSE))
    /\ Rendered
    /\ UNCHANGED << maskConfig, heap, histVars, dragVars, imgVars, showGenModal, prompt,
                    transform, ptrVars >>
    /\ law' = LawAfter("other")

\* handleGenerateBackground after the await
GenerateResolve(i, result) ==
    LET t == tasks[i]
    IN  /\ t.kind = "generate" /\ t.stage = "api"
        /\ Step(Resolved("generateResolve", "generate", 2, result))
        /\ IF result = NoImg
           THEN /\ isGenerating' = FALSE
                /\ tasks' = RemoveAt(tasks, i)
                /\ Rendered
           ELSE /\ tasks' = [tasks EXCEPT ![i].stage = "decode", ![i].res = result]
                /\ UNCHANGED isGenerating
                /\ NotRendered
        /\ UNCHANGED << maskConfig, heap, histVars, dragVars, imgVars, showGenModal,
                        prompt, transform, ptrVars >>
        /\ law' = LawAfter("other")

\* handleGenerateBackground: img.onload
GenerateLoad(i) ==
    LET t == tasks[i]
    IN  /\ t.kind = "generate" /\ t.stage = "decode"
        /\ Step(Ev("generateLoad", 2, NoPt, 0, t.res.src))
        /\ tasks' = RemoveAt(tasks, i)
        /\ img2' = t.res
        /\ isGenerating' = FALSE
        /\ showGenModal' = FALSE
        /\ Rendered
        /\ UNCHANGED << maskConfig, heap, histVars, dragVars, img1, canvasSize,
                        upscalingLayer, prompt, transform, ptrVars >>
        /\ law' = LawAfter("other")

\* handleGenerateBackground: the returned data does not decode (error event of
\* img); img has no onerror handler, so no state is set
GenerateError(i) ==
    LET t == tasks[i]
    IN  /\ t.kind = "generate" /\ t.stage = "decode"
        /\ Step(Ev("generateError", 2, NoPt, 0, t.res.src))
        /\ tasks' = RemoveAt(tasks, i)
        /\ NotRendered
        /\ UNCHANGED << maskConfig, heap, histVars, dragVars, imgVars, genVars,
                        transform, ptrVars >>
        /\ law' = LawAfter("other")

-----------------------------------------------------------------------------
(* Inputs of the exploration *)

PointerIds == {1, 2}
Near == Pt(400, 400)
Beside == Pt(410, 400)
Far == Pt(760, 400)
Points == {Near, Beside, Far}
TapGaps == {150, 300}

FileA == [w |-> 400, h |-> 300, src |-> "a"]
FileB == [w |-> 20000, h |-> 500, src |-> "b"]
FileC == [w |-> 800, h |-> 600, src |-> "c"]
Generated == [w |-> 1024, h |-> 1024, src |-> "g"]

\* what the upscale call may hand back for source image img: nothing, or the image
\* at twice the size
Upscaled(img) == [w |-> 2 * img.w, h |-> 2 * img.h, src |-> img.src]
UpscaleResults(img) == {NoImg, Upscaled(img)}

\* slider positions tried, inside each slider's min..max
SliderKeys == {"scale", "rotation", "opacity", "brushSize", "fontSize"}
SliderValues(k) ==
    CASE k = "scale"     -> {100, 2000}
      [] k = "rotation"  -> {90, 360}
      [] k = "opacity"   -> {0, 50}
      [] k = "brushSize" -> {1, 100}
      [] k = "fontSize"  -> {10, 300}

-----------------------------------------------------------------------------
(* The whole program *)

Next ==
    \/ \E p \in Points, d \in {-1, 0, 1} : handleWheel(p, d)
    \/ \E id \in PointerIds, p \in Points, dt \in TapGaps : PointerDown(id, p, dt)
    \/ \E id \in PointerIds, p \in Points : PointerMove(id, p)
    \/ \E p \in Points : PointerHover(p)
    \/ \E id \in PointerIds, k \in {"up", "cancel", "leave"} : PointerUp(id, k)
    \/ handleZoomIn
    \/ handleZoomOut
    \/ handleFitToScreen
    \/ handleCenterView
    \/ SyncTransformRef
    \/ \E w \in {"slider", "text"} : PanelSave(w)
    \/ \E k \in SliderKeys : \E v \in SliderValues(k) : PanelChange(k, v)
    \/ \E v \in {"", "A"} : PanelChange("text", v)
    \/ \E t \in Tools : onSelectMask(t)
    \/ handleClearMask
    \/ undo
    \/ redo
    \/ handleResetView
    \/ handleSwapLayers
    \/ \E t \in {1, 2}, f \in {FileA, FileB} : UploadStart(t, f)
    \/ \E i \in DOMAIN tasks : UploadLoad(i)
    \/ \E t \in {1, 2} : UpscaleStart(t)
    \/ \E i \in DOMAIN tasks : \E r \in UpscaleResults(tasks[i].img) : UpscaleResolve(i, r)
    \/ \E i \in DOMAIN tasks : UpscaleLoad(i)
    \/ \E i \in DOMAIN tasks : UpscaleError(i)
    \/ \E b \in BOOLEAN : SetGenModal(b)
    \/ \E b \in BOOLEAN : SetPrompt(b)
    \/ GenerateStart
    \/ \E i \in DOMAIN tasks : \E r \in {NoImg, Generated} : GenerateResolve(i, r)
    \/ \E i \in DOMAIN tasks : GenerateLoad(i)
    \/ \E i \in DOMAIN tasks : GenerateError(i)
    \/ \E t \in {1, 2} : UpscaleNoBase64(t)
    \/ RenderEffect

Spec == Init /\ [][Next]_vars

-----------------------------------------------------------------------------
(* An editing session under way.  InitEditing is the state the program is in once *)
(* the foreground image FileA has been chosen and decoded (UploadStart(1, FileA)  *)
(* and UploadLoad(1) from Init), with the default tool still selected or after    *)
(* Brush has been picked in the toolbar (onSelectMask("Brush")).                  *)

BrushSelected == SelectMaskConfig(DEFAULT_MASK_CONFIG, "Brush")

InitEditing ==
    /\ \E picked \in BOOLEAN :
         /\ maskConfig = IF picked THEN BrushSelected ELSE DEFAULT_MASK_CONFIG
         /\ past = IF picked THEN << DEFAULT_MASK_CONFIG >> ELSE << >>
         /\ last = IF picked THEN Ev("select", 0, NoPt, 0, "Brush")
                   ELSE Ev("uploadLoad", 1, NoPt, 0, FileA.src)
         /\ law = IF picked
                  THEN [phase |-> "saved", a |-> DEFAULT_MASK_CONFIG, b |-> BrushSelected]
                  ELSE NoLaw
    /\ heap = << >>
    /\ future = << >>
    /\ isDragging = FALSE
    /\ lastPos = Pt(0, 0)
    /\ img1 = FileA
    /\ img2 = NoImg
    /\ canvasSize = [width |-> FileA.w, height |-> FileA.h]
    /\ upscalingLayer = 0
    /\ isGenerating = FALSE
    /\ showGenModal = FALSE
    /\ prompt = FALSE
    /\ tasks = << >>
    /\ transform = centerImage(FileA.w, FileA.h)
    /\ transformRef = centerImage(FileA.w, FileA.h)
    /\ pointers = << >>
    /\ capture = << >>
    /\ gestureStart = NoGesture
    /\ lastTap = 0
    /\ now = InitNow
    /\ steps = 0
    /\ canvas = Composite(NoCanvas)

\* The mask editor: tools, drawing, property edits, history, upscale
NextMask ==
    \/ \E t \in {"Hand", "Brush", "Pen", "Text"} : onSelectMask(t)
    \/ \E id \in PointerIds, p \in {Near, Beside} : PointerDown(id, p, TapWindow)
    \/ \E id \in PointerIds, p \in {Near, Beside} : PointerMove(id, p)
    \/ \E id \in PointerIds, k \in {"up", "cancel", "leave"} : PointerUp(id, k)
    \/ \E w \in {"slider", "text"} : PanelSave(w)
    \/ \E k \in {"scale", "brushSize"} : \E v \in SliderValues(k) : PanelChange(k, v)
    \/ handleClearMask
    \/ undo
    \/ redo
    \/ handleResetView
    \/ handleSwapLayers
    \/ UpscaleStart(1)
    \/ \E i \in DOMAIN tasks : \E r \in UpscaleResults(tasks[i].img) : UpscaleResolve(i, r)
    \/ \E i \in DOMAIN tasks : UpscaleLoad(i)
    \/ SyncTransformRef

SpecMask == InitEditing /\ [][NextMask]_vars

\* Gestures on the viewport and the canvas inside it
NextPinch ==
    \/ \E id \in PointerIds, p \in Points : PointerDown(id, p, TapWindow)
    \/ \E id \in PointerIds, p \in Points : PointerMove(id, p)
    \/ \E id \in PointerIds, k \in {"up", "cancel", "leave"} : PointerUp(id, k)
    \/ \E p \in {Near, Far} : PointerHover(p)
    \/ \E d \in {-1, 1} : handleWheel(Far, d)
    \/ handleZoomOut
    \/ onSelectMask("Hand")
    \/ SyncTransformRef

SpecPinch == InitEditing /\ [][NextPinch]_vars

\* The editing session after one tap with the brush on the canvas at Near (pointer-down,
\* pointer-up): one stroke of one point, the checkpoint of the pointer-down on past
OneStroke == [BrushSelected EXCEPT !.brushPoints = << 1 >>]

InitStroke ==
    /\ maskConfig = OneStroke
    /\ heap = << << getPos(Near, centerImage(FileA.w, FileA.h)) >> >>
    /\ past = << DEFAULT_MASK_CONFIG, BrushSelected >>
    /\ future = << >>
    /\ isDragging = FALSE
    /\ lastPos = getPos(Near, centerImage(FileA.w, FileA.h))
    /\ img1 = FileA
    /\ img2 = NoImg
    /\ canvasSize = [width |-> FileA.w, height |-> FileA.h]
    /\ upscalingLayer = 0
    /\ isGenerating = FALSE
    /\ showGenModal = FALSE
    /\ prompt = FALSE
    /\ tasks = << >>
    /\ transform = centerImage(FileA.w, FileA.h)
    /\ transformRef = centerImage(FileA.w, FileA.h)
    /\ pointers = << >>
    /\ capture = << >>
    /\ gestureStart = NoGesture
    /\ lastTap = InitNow + TapWindow
    /\ now = InitNow + TapWindow
    /\ last = [Ev("up", 1, Near, 0, "canvas") EXCEPT
                   !.drag = "done", !.from = getPos(Near, centerImage(FileA.w, FileA.h))]
    /\ law = [phase |-> "saved", a |-> BrushSelected, b |-> Deref(OneStroke, heap)]
    /\ steps = 0
    /\ canvas = Composite(NoCanvas)

\* Drawing and dragging on the canvas with one or two pointers, tool changes and history
NextDraw ==
    \/ \E t \in {"Hand", "Brush", "Stars"} : onSelectMask(t)
    \/ \E id \in PointerIds, p \in {Near, Beside} : PointerDown(id, p, TapWindow)
    \/ \E id \in PointerIds, p \in Points : PointerMove(id, p)
    \/ \E p \in {Near, Beside} : PointerHover(p)
    \/ \E id \in PointerIds, k \in {"up", "cancel", "leave"} : PointerUp(id, k)
    \/ handleClearMask
    \/ undo
    \/ redo
    \/ SyncTransformRef

SpecDraw == (InitEditing \/ InitStroke) /\ [][NextDraw]_vars

\* The editing session after a second upload, of FileB as the background, and then
\* possibly with the AI modal opened and a prompt typed
InitLayers ==
    /\ \E typed \in BOOLEAN :
         /\ showGenModal = typed
         /\ prompt = typed
         /\ last = IF typed THEN Ev("prompt", 0, NoPt, 0, "")
                   ELSE Ev("uploadLoad", 2, NoPt, 0, FileB.src)
    /\ maskConfig = DEFAULT_MASK_CONFIG
    /\ heap = << >>
    /\ past = << >>
    /\ future = << >>
    /\ isDragging = FALSE
    /\ lastPos = Pt(0, 0)
    /\ img1 = FileA
    /\ img2 = FileB
    /\ canvasSize = [width |-> FileA.w, height |-> FileA.h]
    /\ upscalingLayer = 0
    /\ isGenerating = FALSE
    /\ tasks = << >>
    /\ transform = centerImage(FileA.w, FileA.h)
    /\ transformRef = centerImage(FileA.w, FileA.h)
    /\ pointers = << >>
    /\ capture = << >>
    /\ gestureStart = NoGesture
    /\ lastTap = 0
    /\ now = InitNow
    /\ law = NoLaw
    /\ steps = 0
    /\ canvas = Composite(NoCanvas)

\* The two image slots: upload, swap, upscale and background generation, with tool
\* changes in between
NextLayers ==
    \/ \E t \in {1, 2} : UploadStart(t, FileA)
    \/ \E i \in DOMAIN tasks : UploadLoad(i)
    \/ handleSwapLayers
    \/ \E t \in {"Hand", "Brush"} : onSelectMask(t)
    \/ \E t \in {1, 2} : UpscaleStart(t)
    \/ \E i \in DOMAIN tasks : \E r \in UpscaleResults(tasks[i].img) : UpscaleResolve(i, r)
    \/ \E i \in DOMAIN tasks : UpscaleLoad(i)
    \/ \E i \in DOMAIN tasks : UpscaleError(i)
    \/ \E b \in BOOLEAN : SetGenModal(b)
    \/ \E b \in BOOLEAN : SetPrompt(b)
    \/ GenerateStart
    \/ \E i \in DOMAIN tasks : \E r \in {NoImg, Generated} : GenerateResolve(i, r)
    \/ \E i \in DOMAIN tasks : GenerateLoad(i)
    \/ \E i \in DOMAIN tasks : GenerateError(i)
    \/ \E t \in {1, 2} : UpscaleNoBase64(t)
    \/ SyncTransformRef

\* what the runtime guarantees of a call in flight: the promise of the AI call
\* settles, and the image element given the result fires load or error
AIProgress ==
    \E i \in DOMAIN tasks :
        \/ \E r \in UpscaleResults(tasks[i].img) : UpscaleResolve(i, r)
        \/ UpscaleLoad(i)
        \/ UpscaleError(i)
        \/ \E r \in {NoImg, Generated} : GenerateResolve(i, r)
        \/ GenerateLoad(i)
        \/ GenerateError(i)

SpecLayers == (InitEditing \/ InitLayers) /\ [][NextLayers]_vars

\* Drawing with Pen or Brush, picking a shape, and switching to Pan (Hand), with
\* the render effect
NextPan ==
    \/ \E t \in {"Hand", "Pen", "Brush", "Circle"} : onSelectMask(t)
    \/ PointerDown(1, Near, TapWindow)
    \/ \E p \in {Beside, Far} : PointerMove(1, p)
    \/ PointerUp(1, "up")
    \/ RenderEffect

SpecPan == (InitEditing \/ InitStroke) /\ [][NextPan]_vars

\* the same with the runtime's guarantee for calls in flight
SpecLayersFair ==
    (InitEditing \/ InitLayers) /\ [][NextLayers]_vars /\ WF_vars(AIProgress)

\* The properties panel and the header buttons that edit the mask, with the upscale
\* of the foreground
NextPanel ==
    \/ \E w \in {"slider", "text"} : PanelSave(w)
    \/ \E k \in SliderKeys : \E v \in SliderValues(k) : PanelChange(k, v)
    \/ \E v \in {"", "A"} : PanelChange("text", v)
    \/ \E t \in {"Text", "Brush", "Stars"} : onSelectMask(t)
    \/ handleResetView
    \/ handleClearMask
    \/ undo
    \/ redo
    \/ UpscaleStart(1)
    \/ \E i \in DOMAIN tasks : \E r \in UpscaleResults(tasks[i].img) : UpscaleResolve(i, r)
    \/ \E i \in DOMAIN tasks : UpscaleLoad(i)
    \/ \E i \in DOMAIN tasks : UpscaleError(i)
    \/ SyncTransformRef

SpecPanel == InitEditing /\ [][NextPanel]_vars

\* Compositing: images come and go, the mask is reshaped and painted, and the render
\* effect follows
RenderSliders ==
    { << "scale", 2000 >>, << "rotation", 90 >>, << "opacity", 0 >>, << "opacity", 50 >> }

NextRender ==
    \/ UploadStart(1, FileC)
    \/ UploadStart(2, FileB)
    \/ \E i \in DOMAIN tasks : UploadLoad(i)
    \/ handleSwapLayers
    \/ \E t \in {"Filmstrip", "Pen"} : onSelectMask(t)
    \/ \E c \in RenderSliders : PanelChange(c[1], c[2])
    \/ PointerDown(1, Near, TapWindow)
    \/ PointerMove(1, Beside)
    \/ RenderEffect

SpecRender == (Init \/ InitEditing \/ InitStroke) /\ [][NextRender]_vars

-----------------------------------------------------------------------------
(* The viewport engine: camera events, image load and upscale, from the state   *)
(* after construction and from an editing session                              *)

NextCamera ==
    \/ \E p \in {Near, Far}, d \in {-1, 0, 1} : handleWheel(p, d)
    \/ \E id \in PointerIds, p \in Points, dt \in TapGaps : PointerDown(id, p, dt)
    \/ \E id \in PointerIds, p \in Points : PointerMove(id, p)
    \/ \E id \in PointerIds, k \in {"up", "cancel", "leave"} : PointerUp(id, k)
    \/ handleZoomIn
    \/ handleZoomOut
    \/ handleFitToScreen
    \/ handleCenterView
    \/ SyncTransformRef
    \/ \E t \in {"Hand", "Circle"} : onSelectMask(t)
    \/ \E f \in {FileA, FileB} : UploadStart(1, f)
    \/ \E i \in DOMAIN tasks : UploadLoad(i)
    \/ UpscaleStart(1)
    \/ \E i \in DOMAIN tasks : \E r \in UpscaleResults(tasks[i].img) : UpscaleResolve(i, r)
    \/ \E i \in DOMAIN tasks : UpscaleLoad(i)
    \/ \E b \in BOOLEAN : SetGenModal(b)

SpecCamera == (Init \/ InitEditing) /\ [][NextCamera]_vars

\* The camera buttons, on contents of several sizes
NextView ==
    \/ handleZoomIn
    \/ handleZoomOut
    \/ handleFitToScreen
    \/ handleCenterView
    \/ \E p \in {Near, Far}, d \in {-1, 1} : handleWheel(p, d)
    \/ \E f \in {FileB, FileC} : UploadStart(1, f)
    \/ \E i \in DOMAIN tasks : UploadLoad(i)
    \/ \E t \in {"Brush"} : onSelectMask(t)
    \/ SyncTransformRef

SpecView == (Init \/ InitEditing) /\ [][NextView]_vars

-----------------------------------------------------------------------------
(* Properties *)

\* the step just taken handled an event of kind op
Handled(op) == steps' = steps + 1 /\ last'.op = op

\* the world point under screen point p with camera t lies, with camera t2, within
\* tol pixels of screen point q
WorldPointKept(t, p, t2, q, tol) ==
    /\ Abs((q.x - RectLeft - t2.x) - MulDivR(p.x - RectLeft - t.x, t2.scale, t.scale)) <= tol
    /\ Abs((q.y - RectTop - t2.y) - MulDivR(p.y - RectTop - t.y, t2.scale, t.scale)) <= tol

\* C1: in every reachable state, whatever camera operations led to it, the camera
\* scale lies in [0.05, 20].
C1_ScaleInRange == transform.scale >= MinScale /\ transform.scale <= MaxScale

\* C2: after a checkpoint taken while the live configuration is A and a mutation of
\* the live configuration to B, undo makes the live configuration exactly A and a
\* following redo makes it exactly B (configurations compared by value, stroke
\* points included).
C2_UndoRedoLaw ==
    /\ law.phase = "undone" => Deref(maskConfig, heap) = law.a
    /\ law.phase = "redone" => Deref(maskConfig, heap) = law.b

\* the step just taken called saveHistory: the panel's slider press and text focus,
\* a toolbar selection, clear-mask, swap-layers, or a pointer-down the canvas draws with
Checkpointed ==
    \/ Handled("panelSave")
    \/ Handled("select")
    \/ Handled("clear")
    \/ Handled("swap")
    \/ Handled("down") /\ last'.s = "canvas" /\ maskConfig.type # "Hand" /\ last'.id = 1

\* C3: a checkpoint appends the live configuration to the end of past and empties
\* future; undo with non-empty past removes the last entry of past, makes it live and
\* puts the pre-undo live configuration at the front of future; redo with non-empty
\* future removes the first entry of future, makes it live and appends the pre-redo
\* live configuration to past.
C3_HistorySteps ==
    [][ /\ Checkpointed =>
            /\ DerefAll(past', heap') =
                   DerefAll(past, heap) \o << Deref(maskConfig, heap) >>
            /\ future' = << >>
        /\ (Handled("undo") /\ Len(past) > 0) =>
            /\ DerefAll(past', heap') =
                   [i \in 1 .. (Len(past) - 1) |-> Deref(past[i], heap)]
            /\ Deref(maskConfig', heap') = Deref(past[Len(past)], heap)
            /\ DerefAll(future', heap') =
                   << Deref(maskConfig, heap) >> \o DerefAll(future, heap)
        /\ (Handled("redo") /\ Len(future) > 0) =>
            /\ DerefAll(future', heap') =
                   [i \in 1 .. (Len(future) - 1) |-> Deref(future[i + 1], heap)]
            /\ Deref(maskConfig', heap') = Deref(future[1], heap)
            /\ DerefAll(past', heap') =
                   DerefAll(past, heap) \o << Deref(maskConfig, heap) >>
      ]_vars

\* C3 witness: a redo has just moved the head of a non-empty future onto the live
\* configuration, after a checkpoint and an undo
C3_Witness == last.op = "redo" /\ last.n > 0 /\ Len(past) > 0 /\ law.phase = "redone"

\* C4: undo with empty past and redo with empty future leave past, future and the
\* live mask configuration unchanged.
C4_EmptyNoOp ==
    [][ (\/ Handled("undo") /\ Len(past) = 0
         \/ Handled("redo") /\ Len(future) = 0)
        => UNCHANGED << past, future, maskConfig, heap >> ]_vars

\* C4 witness: an undo has just been handled with nothing in past, after the
\* configuration had been edited
C4_Witness ==
    last.op = "undo" /\ last.n = 0 /\ past = << >> /\ maskConfig # DEFAULT_MASK_CONFIG

\* C5 as stated: selecting Brush or Pen sets shape to None, leaves the strokes as they
\* were and changes nothing else of the configuration.
C5_BrushSwitchKeepsStrokes ==
    [][ (Handled("select") /\ IsBrushType(last'.s)) =>
            /\ maskConfig'.shape = "None"
            /\ Deref(maskConfig', heap').brushPoints = Deref(maskConfig, heap).brushPoints
            /\ maskConfig' = [maskConfig EXCEPT !.type = last'.s, !.shape = "None"]
      ]_vars

\* C5 amended: selecting Brush or Pen sets shape to None, empties the strokes and
\* resets position to (0.5, 0.5), mask scale to 0.4 and rotation to 0; text, fontSize,
\* brushSize and opacity keep their values.
C5_BrushSwitchResets ==
    [][ (Handled("select") /\ IsBrushType(last'.s)) =>
            maskConfig' = [maskConfig EXCEPT !.type = last'.s, !.shape = "None",
                                            !.brushPoints = << >>,
                                            !.x = 500, !.y = 500,
                                            !.scale = 400, !.rotation = 0]
      ]_vars

\* C5 witness: Brush or Pen has just been selected from a configuration that had a
\* stroke, and the live configuration has none
C5_Witness ==
    /\ last.op = "select" /\ IsBrushType(last.s)
    /\ law.phase = "saved" /\ Len(law.a.brushPoints) > 0
    /\ maskConfig.brushPoints = << >>

\* C6: selecting Pan (the Hand tool) leaves shape, position, mask scale and rotation
\* as they were; only the interaction mode changes.
C6_PanSwitchKeeps ==
    [][ (Handled("select") /\ last'.s = "Hand") =>
            /\ maskConfig'.shape = maskConfig.shape
            /\ maskConfig'.x = maskConfig.x /\ maskConfig'.y = maskConfig.y
            /\ maskConfig'.scale = maskConfig.scale
            /\ maskConfig'.rotation = maskConfig.rotation
            /\ maskConfig' = [maskConfig EXCEPT !.type = "Hand"]
      ]_vars

\* C6 witness: Hand has just been selected while the shape sat off-centre at a
\* non-default scale
C6_Witness ==
    /\ last.op = "select" /\ last.s = "Hand" /\ maskConfig.type = "Hand"
    /\ maskConfig.x # DEFAULT_MASK_CONFIG.x
    /\ maskConfig.scale # DEFAULT_MASK_CONFIG.scale

\* C7: in every reachable state, if the interaction mode is Brush or Pen then shape
\* is None.
C7_BrushHasNoShape == IsBrushType(maskConfig.type) => maskConfig.shape = "None"

\* C7 witness: an undo has just brought back a brush configuration with a stroke
C7_Witness ==
    /\ last.op = "undo" /\ last.n > 0
    /\ IsBrushType(maskConfig.type) /\ Len(maskConfig.brushPoints) > 0

\* C8: a wheel event at viewport point p multiplies the camera scale by exp(0.15)
\* (deltaY < 0) or exp(-0.15) (deltaY > 0), clamps it to [0.05, 20], and keeps the
\* world point that was under p under p.  (Stated for events the handler accepts:
\* no generation running, no modal open.)
C8_WheelZoom ==
    [][ (Handled("wheel") /\ last'.n # 0 /\ ~(isGenerating \/ showGenModal)) =>
            /\ transform'.scale =
                   Min2(Max2(RDiv(transform.scale
                                    * (IF last'.n < 0 THEN ZoomInMult ELSE ZoomOutMult),
                                  1000), MinScale), MaxScale)
            /\ WorldPointKept(transform, last'.p, transform', last'.p, 1)
      ]_vars

\* C9: on a pointer-move with two or more active pointers, in any interaction mode,
\* the new camera scale is baseline.scale * (current mean distance / baseline mean
\* distance) clamped to [0.05, 20], and the world point that lay under the baseline
\* centroid with the baseline transform lies exactly under the current centroid.
\* The ratio exists when the baseline mean distance is positive; with all pointers
\* on one spot at baseline the scale is the clamped baseline scale.
C9_Pinch ==
    [][ (Handled("move") /\ Cardinality(DOMAIN pointers') >= 2) =>
            LET g   == gestureStart
                cur == getCentroid(pointers')
            IN  /\ g.set
                /\ g.distance > 0 =>
                       transform'.scale =
                           Min2(Max2(RDiv(g.transform.scale * cur.distance, g.distance),
                                     MinScale), MaxScale)
                /\ g.distance = 0 =>
                       transform'.scale = Min2(Max2(g.transform.scale, MinScale), MaxScale)
                /\ WorldPointKept(g.transform, g.center, transform', cur.center, 0)
      ]_vars

\* C9 witness: two pointers spread apart while a drawing tool is selected have just
\* driven the camera scale into the upper clamp
C9_Witness ==
    /\ last.op = "move" /\ Cardinality(DOMAIN pointers) >= 2
    /\ gestureStart.set /\ gestureStart.distance > 0
    /\ getCentroid(pointers).distance > 20 * gestureStart.distance
    /\ maskConfig.type # "Hand"
    /\ transform.scale = MaxScale

\* C10: a pointer-down that leaves exactly one active pointer less than 300 ms after
\* the previous such pointer-down is a double-tap: with the camera scale below 1 the
\* camera becomes scale 1 with the world point under the tap kept under the tap,
\* otherwise fit-to-screen is applied; 300 ms or more after the previous one, neither
\* happens.
C10_DoubleTap ==
    [][ (Handled("down") /\ Cardinality(DOMAIN pointers') = 1) =>
            IF now' - lastTap < 300
            THEN IF transform.scale < 1000
                 THEN /\ transform'.scale = 1000
                      /\ WorldPointKept(transform, last'.p, transform', last'.p, 1)
                 ELSE transform' = centerImage(canvasSize.width, canvasSize.height)
            ELSE transform' = transform
      ]_vars

\* C11: a pointer-move with exactly one active pointer changes the camera transform
\* only in Pan mode: with any other tool the camera transform after the move equals
\* the one before it, also for a pointer captured by the drawing path.
C11_OnePointerMove ==
    [][ (Handled("move") /\ Cardinality(DOMAIN pointers') = 1
                         /\ maskConfig.type # "Hand") => transform' = transform
      ]_vars

\* C11 witness: the single active pointer, captured by the canvas while a drawing tool
\* is selected, has just moved away from the point of the gesture baseline
C11_Witness ==
    /\ last.op = "move" /\ last.s = "canvas"
    /\ Cardinality(DOMAIN pointers) = 1
    /\ maskConfig.type # "Hand"
    /\ isDragging
    /\ gestureStart.set /\ pointers[last.id] # gestureStart.center

\* C12: after every pointer-down, pointer-up, pointer-cancel and pointer-leave the
\* gesture baseline is null exactly when no pointer is active, and otherwise holds the
\* camera transform of that moment with the centroid and the mean centroid distance of
\* the active pointers; a pointer-move with no active pointer leaves the camera alone.
C12_GestureBaseline ==
    [][ /\ (Handled("down") \/ Handled("up") \/ Handled("cancel") \/ Handled("leave")) =>
              /\ gestureStart'.set <=> DOMAIN pointers' # {}
              /\ gestureStart'.set =>
                    /\ gestureStart'.transform = transform
                    /\ gestureStart'.center = getCentroid(pointers').center
                    /\ gestureStart'.distance = getCentroid(pointers').distance
        /\ ((Handled("move") \/ Handled("hover")) /\ DOMAIN pointers = {}) =>
              transform' = transform
      ]_vars

\* C13: in Brush or Pen mode, undo right after one complete drag (pointer-down, any
\* number of pointer-moves, pointer-up of the same pointer) restores the configuration
\* that was live at pointer-down: its strokes are the ones from before the drag, none
\* when there were none.
C13_UndoAfterDrag ==
    [][ (Handled("undo") /\ last.drag = "done" /\ IsBrushType(maskConfig.type)) =>
            /\ Deref(maskConfig', heap') = law.a
            /\ Len(maskConfig'.brushPoints) = Len(maskConfig.brushPoints) - 1
            /\ Len(law.a.brushPoints) = 0 => maskConfig'.brushPoints = << >>
      ]_vars

\* C13 witness: a stroke of at least two points was drawn in one drag and the undo that
\* followed at once left no stroke; the stroke waits on the redo stack
C13_Witness ==
    /\ last.op = "undo" /\ last.drag = "undone"
    /\ IsBrushType(maskConfig.type)
    /\ maskConfig.brushPoints = << >>
    /\ future # << >>
    /\ Len(future[1].brushPoints) = 1
    /\ Len(heap[future[1].brushPoints[1]]) >= 2

\* what a pointer-down of the primary pointer on the canvas does, given the stroke it
\* is to append in Brush or Pen mode: one checkpoint of the live configuration in
\* every mode but Pan, in Brush or Pen mode one more stroke after the earlier ones with
\* every other field kept; in Pan mode no checkpoint and no change of any stroke
PrimaryDownRecords(stroke) ==
    (Handled("down") /\ last'.s = "canvas" /\ last'.id = 1) =>
        IF maskConfig.type # "Hand"
        THEN /\ past' = Append(past, maskConfig)
             /\ IsBrushType(maskConfig.type) =>
                   /\ Deref(maskConfig', heap').brushPoints =
                          Append(Deref(maskConfig, heap).brushPoints, stroke)
                   /\ [maskConfig' EXCEPT !.brushPoints = << >>] =
                          [maskConfig EXCEPT !.brushPoints = << >>]
        ELSE /\ past' = past
             /\ Deref(maskConfig', heap') = Deref(maskConfig, heap)

\* C14: a primary pointer-down on the canvas in any mode other than Pan records exactly
\* one history checkpoint; in Brush or Pen mode it also appends exactly one new stroke,
\* and that stroke is empty until the first pointer-move of the drag; in Pan mode it
\* records no checkpoint and changes no stroke.
C14_DownAppendsEmptyStroke == [][PrimaryDownRecords(<< >>)]_vars

\* C14, amended: as above, but the new stroke holds exactly one point, the canvas
\* position of the pointer-down, until the first pointer-move of the drag.
C14_DownAppendsStartPoint ==
    [][PrimaryDownRecords(<< getPos(last'.p, transform) >>)]_vars

\* C14 witness: the primary pointer has just gone down on the canvas with the brush
\* selected and an earlier stroke present; the new, second stroke has one point
C14_Witness ==
    /\ last.op = "down" /\ last.s = "canvas" /\ last.id = 1
    /\ IsBrushType(maskConfig.type)
    /\ isDragging
    /\ Len(maskConfig.brushPoints) = 2
    /\ Len(heap[maskConfig.brushPoints[2]]) = 1
    /\ past # << >> /\ Len(past[Len(past)].brushPoints) = 1

\* C15: while a drawing or shape drag by the primary pointer is in progress, the events
\* of a second, non-primary pointer (its pointer-down, pointer-moves and pointer-up)
\* add no point to any stroke, do not change position, record no checkpoint and do not
\* end the primary pointer's drag.
C15_SecondPointerIgnored ==
    [][ ( /\ isDragging /\ maskConfig.type # "Hand"
          /\ 1 \in DOMAIN capture /\ capture[1] = "canvas"
          /\ steps' = steps + 1
          /\ last'.op \in {"down", "move", "up"} /\ last'.id = 2 ) =>
            /\ Deref(maskConfig', heap').brushPoints = Deref(maskConfig, heap).brushPoints
            /\ maskConfig'.x = maskConfig.x /\ maskConfig'.y = maskConfig.y
            /\ past' = past
            /\ isDragging'
      ]_vars

\* d thousandths is px pixels over extent pixels, as the sum of n moves each rounded
\* to the nearest thousandth
SumOfMoves(d, px, extent, n) == 2 * Abs(d * extent - px * 1000) <= n * extent

\* C16: during a drag in a shape mode (not Brush, Pen or Pan) each pointer-move adds
\* (current point - previous point) / (canvas width, canvas height) to position, so
\* that after any number of moves position - position at pointer-down =
\* (last point - pointer-down point) / canvas size; in Brush or Pen mode each
\* pointer-move appends its point to the last stroke and leaves position unchanged.
C16_DragMoves ==
    [][ (Handled("move") /\ last'.id = 1 /\ last'.s = "canvas" /\ isDragging
                         /\ maskConfig.type # "Hand") =>
            LET pos == getPos(last'.p, transform)
                n   == Len(maskConfig.brushPoints)
                old == Deref(maskConfig, heap)
                new == Deref(maskConfig', heap')
            IN  IF IsBrushType(maskConfig.type)
                THEN /\ n > 0 => new.brushPoints =
                                   [old.brushPoints EXCEPT ![n] = Append(@, pos)]
                     /\ new.x = old.x /\ new.y = old.y
                ELSE /\ new.x = old.x + RDiv((pos.x - lastPos.x) * 1000, canvasSize.width)
                     /\ new.y = old.y + RDiv((pos.y - lastPos.y) * 1000, canvasSize.height)
                     /\ new.brushPoints = old.brushPoints
                     /\ last'.drag = "drag" =>
                           /\ SumOfMoves(new.x - law.a.x, pos.x - last.from.x,
                                         canvasSize.width, last'.n)
                           /\ SumOfMoves(new.y - law.a.y, pos.y - last.from.y,
                                         canvasSize.height, last'.n)
      ]_vars

\* C16 witness: the second move of a shape drag has just been handled and the shape
\* stands away from where it was at pointer-down
C16_Witness ==
    /\ last.op = "move" /\ last.drag = "drag" /\ last.n >= 2
    /\ ~IsBrushType(maskConfig.type) /\ maskConfig.type # "Hand"
    /\ isDragging
    /\ maskConfig.x # law.a.x

\* C17: in every reachable state the mask position (x, y) is a normalized point,
\* 0 <= x <= 1 and 0 <= y <= 1, after any sequence of shape drags, tool selections,
\* clear-mask, undo and redo.
C17_PositionNormalized ==
    /\ maskConfig.x >= 0 /\ maskConfig.x <= 1000
    /\ maskConfig.y >= 0 /\ maskConfig.y <= 1000

\* v2 is v times a / b, to the nearest unit of the grid v and v2 are counted in
TimesRatio(v2, v, a, b) == 2 * Abs(v2 * b - v * a) <= b

\* C18: when an upscale of the foreground completes with a new image, with
\* r = new width / old width, fontSize, brushSize and the x and y of every point of
\* every stroke are multiplied by r, the camera scale is divided by r, canvas size
\* becomes the new image's dimensions, and shape, interaction mode, position, mask
\* scale, rotation and opacity are unchanged.
C18_UpscaleRescales ==
    [][ (Handled("upscaleLoad") /\ last'.id = 1) =>
            \E i \in DOMAIN tasks :
                LET newW == tasks[i].res.w
                    oldW == tasks[i].img.w
                    old  == Deref(maskConfig, heap)
                    new  == Deref(maskConfig', heap')
                IN  /\ tasks' = RemoveAt(tasks, i)
                    /\ img1' = tasks[i].res
                    /\ TimesRatio(new.fontSize, old.fontSize, newW, oldW)
                    /\ TimesRatio(new.brushSize, old.brushSize, newW, oldW)
                    /\ Len(new.brushPoints) = Len(old.brushPoints)
                    /\ \A k \in DOMAIN old.brushPoints :
                          /\ Len(new.brushPoints[k]) = Len(old.brushPoints[k])
                          /\ \A j \in DOMAIN old.brushPoints[k] :
                                /\ TimesRatio(new.brushPoints[k][j].x,
                                              old.brushPoints[k][j].x, newW, oldW)
                                /\ TimesRatio(new.brushPoints[k][j].y,
                                              old.brushPoints[k][j].y, newW, oldW)
                    /\ TimesRatio(transform'.scale, transform.scale, oldW, newW)
                    /\ canvasSize' = [width |-> img1'.w, height |-> img1'.h]
                    /\ new.shape = old.shape /\ new.type = old.type
                    /\ new.x = old.x /\ new.y = old.y
                    /\ new.scale = old.scale
                    /\ new.rotation = old.rotation
                    /\ new.opacity = old.opacity
      ]_vars

\* C18 witness: a foreground of twice the width has just replaced the 400x300 one; the
\* stroke drawn at canvas point (100,150) now starts at (200,300), the brush size is
\* doubled and the camera scale halved
C18_Witness ==
    /\ last.op = "upscaleLoad" /\ last.id = 1
    /\ img1.w = 2 * FileA.w
    /\ canvasSize = [width |-> 2 * FileA.w, height |-> 2 * FileA.h]
    /\ maskConfig.brushPoints # << >>
    /\ heap[maskConfig.brushPoints[1]][1] = Pt(200, 300)
    /\ maskConfig.brushSize = 2 * DEFAULT_MASK_CONFIG.brushSize
    /\ transform.scale = 500

\* C19: if an upscale is requested for image slot s (foreground or background) and the
\* user uploads images, swaps layers or changes tools before it resolves, the
\* resulting image is stored into slot s and never into the other slot.
C19_UpscaleSlot ==
    [][ Handled("upscaleLoad") =>
            \E i \in DOMAIN tasks :
                /\ tasks' = RemoveAt(tasks, i)
                /\ tasks[i].kind = "upscale" /\ tasks[i].stage = "decode"
                /\ IF tasks[i].target = 1
                   THEN img1' = tasks[i].res /\ img2' = img2
                   ELSE img2' = tasks[i].res /\ img1' = img1
      ]_vars

\* C19 witness: the upscale requested for the background FileB has just completed
\* after the layers were swapped: the enlarged FileB is the background and FileB
\* itself, moved by the swap, is still the foreground
C19_Witness ==
    /\ last.op = "upscaleLoad" /\ last.id = 2
    /\ img2 = Upscaled(FileB)
    /\ img1 = FileB
    /\ past # << >>

\* C20: when background generation or upscale returns no image, a failure alert is
\* shown, the in-progress indicator is cleared, and the completion changes none of:
\* foreground image, background image, canvas size, mask configuration, camera
\* transform, past, future.
C20_FailureLeavesState ==
    [][ ( /\ Handled("upscaleResolve") \/ Handled("generateResolve")
          /\ last'.s = NoImg.src ) =>
            /\ last'.alert # ""
            /\ last'.op = "upscaleResolve" => upscalingLayer' = 0
            /\ last'.op = "generateResolve" => isGenerating' = FALSE
            /\ img1' = img1 /\ img2' = img2
            /\ canvasSize' = canvasSize
            /\ Deref(maskConfig', heap') = Deref(maskConfig, heap)
            /\ transform' = transform
            /\ DerefAll(past', heap') = DerefAll(past, heap)
            /\ DerefAll(future', heap') = DerefAll(future, heap)
      ]_vars

\* C20 witness: background generation has just come back without an image; the alert
\* is up, the generating flag is off and the modal is still open on the prompt
C20_Witness ==
    /\ last.op = "generateResolve" /\ last.s = NoImg.src
    /\ last.alert = "Failed."
    /\ ~isGenerating
    /\ showGenModal /\ prompt
    /\ tasks = << >>

\* C21: when an upscale result has resize ratio zero (returned image of width 0) or
\* the returned image fails to load, the prior image, canvas size, mask configuration
\* and camera transform are left untouched and the upscale in-progress indicator is
\* cleared.  (Image data of width 0 does not decode: both cases are the error event.)
C21_UpscaleLoadFailure ==
    [][ Handled("upscaleError") =>
            /\ img1' = img1 /\ img2' = img2
            /\ canvasSize' = canvasSize
            /\ Deref(maskConfig', heap') = Deref(maskConfig, heap)
            /\ transform' = transform
            /\ upscalingLayer' = 0
      ]_vars

\* C22: every operation that changes the live mask configuration, other than undo and
\* redo, first pushes the pre-mutation configuration onto past and clears future: tool
\* selection, clear-mask, slider and text edits, drawing and shape drags, rotation
\* reset, and the upscale rescaling of fontSize, brushSize and strokes.  (An edit of a
\* slider or text field and a move of a drag count as checkpointed by the press, focus
\* or pointer-down that begins them.)
C22_MutationsCheckpointed ==
    [][ ( /\ steps' = steps + 1
          /\ last'.op \notin {"undo", "redo"}
          /\ Deref(maskConfig', heap') # Deref(maskConfig, heap) ) =>
            \/ /\ DerefAll(past', heap') =
                      DerefAll(past, heap) \o << Deref(maskConfig, heap) >>
               /\ future' = << >>
            \/ last'.op \in {"panelChange", "move", "hover"}
      ]_vars

\* The canvas shows the current inputs: the render effect has run since they last changed
Painted == CanvasMounted /\ canvas.deps = Deps

\* the background layer alone at pixel p: the cover-scaled background image, or the
\* checkerboard of 20 pixel cells
BackgroundAt(p) ==
    IF img2 = NoImg
    THEN << Paint(IF ((p.y \div 20) + (p.x \div 20)) % 2 = 0
                  THEN Fill("#334155") ELSE Fill("#1e293b"), 100) >>
    ELSE LET s == CoverSample(img2, canvasSize.width, canvasSize.height, p)
         IN  << s >>

\* C23: when no foreground image is loaded, the compositor output equals the
\* background layer alone (the cover-scaled background image, or the 20px checkerboard
\* when there is none) for every mask configuration.
C23_BackgroundOnly ==
    (Painted /\ img1 = NoImg) =>
        \A p \in Pixels :
            InBuffer(p, canvasSize.width, canvasSize.height) =>
                canvas.data[p] = BackgroundAt(p)

C23_Witness ==
    /\ Painted /\ img1 = NoImg /\ img2 # NoImg
    /\ maskConfig.shape = "Filmstrip" /\ maskConfig.opacity = 50
    /\ canvas.data[Pt(200, 150)] = BackgroundAt(Pt(200, 150))

\* the mask at pixel p, in percent: the union of the shape raster, under the shape
\* transform, and of the stroke raster, in canvas pixels as drawn
MaskAt(p) ==
    LET cfg == Deref(maskConfig, heap)
    IN  IF \/ ShapeCovers(cfg, canvasSize.width, canvasSize.height, p)
           \/ StrokesCover(cfg.type, cfg.brushPoints, cfg.brushSize, p)
        THEN 100 ELSE 0

\* the foreground pixel that lands on p
ForegroundAt(p) == CoverSample(img1, canvasSize.width, canvasSize.height, p)

\* C24: with a foreground loaded, each output pixel is the background pixel overlaid
\* by the foreground pixel with alpha = foreground alpha x mask alpha x opacity, the
\* mask being the union of the transformed shape raster and the untransformed stroke
\* raster; outside the mask the output equals the background, and with opacity 0 the
\* output equals the background everywhere.
C24_MaskedForeground ==
    (Painted /\ img1 # NoImg) =>
        \A p \in Pixels :
            InBuffer(p, canvasSize.width, canvasSize.height) =>
                LET fg == ForegroundAt(p)
                    alpha == RDiv(fg.a * MaskAt(p) * maskConfig.opacity, 100 * 100)
                IN  /\ canvas.data[p] = SourceOver(BackgroundAt(p), fg.c, alpha)
                    /\ MaskAt(p) = 0 => canvas.data[p] = BackgroundAt(p)
                    /\ maskConfig.opacity = 0 => canvas.data[p] = BackgroundAt(p)

\* a half-opaque foreground over the background inside the circle, the background
\* alone outside of it
C24_Witness ==
    /\ Painted /\ img1 # NoImg /\ img2 # NoImg
    /\ maskConfig.shape = "Circle" /\ maskConfig.opacity = 50
    /\ Len(canvas.data[Pt(200, 150)]) = 2
    /\ canvas.data[Pt(200, 150)][2] = Paint(ForegroundAt(Pt(200, 150)).c, 50)
    /\ canvas.data[Pt(10, 10)] = BackgroundAt(Pt(10, 10))

\* C25: the compositor output is a function of (width, height, foreground,
\* background, mask configuration) only: whatever was rendered before, a render
\* leaves the buffer that the same inputs give on a canvas never drawn on.
C25_NoAccumulation ==
    [][ canvas' # canvas =>
            canvas'.data = RenderOnto(Blank, canvasSize'.width, canvasSize'.height,
                                      img1', img2', Deref(maskConfig', heap')) ]_vars

\* a second frame drawn over the first on the same canvas, behind a half-transparent
\* background image
C25_Witness ==
    /\ Painted /\ img1 = FileA /\ img2 = FileB
    /\ canvas.width = FileA.w /\ canvas.height = FileA.h
    /\ Len(canvas.data[Pt(10, 10)]) = 1 /\ canvas.data[Pt(10, 10)][1].a = 50

\* the top paint of pixel p is the foreground
ShowsForeground(p) ==
    /\ canvas.data[p] # << >>
    /\ canvas.data[p][Len(canvas.data[p])].c = ForegroundAt(p).c

\* p against the disk centred at (x * width, y * height) with diameter
\* scale * min(width, height), in pixels, a pixel clear of the circle
DiskAt(p, margin) ==
    LET dx == p.x - RDiv(maskConfig.x * canvasSize.width, 1000)
        dy == p.y - RDiv(maskConfig.y * canvasSize.height, 1000)
        d  == RDiv(maskConfig.scale * Min2(canvasSize.width, canvasSize.height), 1000)
              + 2 * margin
    IN  /\ d >= 0 /\ Abs(dx) <= d /\ Abs(dy) <= d
        /\ 4 * (dx * dx + dy * dy) <= d * d

\* C26: for shape Circle with rotation 0 the mask is the disk centred at
\* (x * width, y * height) with diameter scale * min(width, height); for the default
\* configuration on an 800x600 foreground with no background this is a centred disk
\* of diameter 240 shown against the checkerboard.
C26_CircleDisk ==
    ( /\ Painted /\ img1 # NoImg
      /\ maskConfig.shape = "Circle" /\ maskConfig.rotation % 360 = 0
      /\ maskConfig.opacity > 0 /\ maskConfig.brushPoints = << >> ) =>
        /\ \A p \in Pixels :
               InBuffer(p, canvasSize.width, canvasSize.height) =>
                   /\ DiskAt(p, -1) => ShowsForeground(p)
                   /\ ~DiskAt(p, 1) => canvas.data[p] = BackgroundAt(p)
        /\ ( /\ canvasSize = [width |-> 800, height |-> 600] /\ img2 = NoImg
             /\ Deref(maskConfig, heap) = DEFAULT_MASK_CONFIG ) =>
               /\ \A p \in {Pt(400, 300), Pt(519, 300)} : ShowsForeground(p)
               /\ canvas.data[Pt(521, 300)] = << Paint(Fill("#1e293b"), 100) >>
               /\ canvas.data[Pt(10, 10)] = << Paint(Fill("#334155"), 100) >>
               /\ canvas.data[Pt(30, 10)] = << Paint(Fill("#1e293b"), 100) >>

C26_Witness ==
    /\ Painted /\ img1 = FileC /\ img2 = NoImg
    /\ Deref(maskConfig, heap) = DEFAULT_MASK_CONFIG
    /\ ShowsForeground(Pt(519, 300)) /\ ~ShowsForeground(Pt(521, 300))

\* pixel p lies on a line of the given width drawn through the points of some stroke
OnStrokes(p, width) ==
    \E i \in DOMAIN maskConfig.brushPoints :
        LET stroke == heap[maskConfig.brushPoints[i]]
        IN  \E k \in 1..(Len(stroke) - 1) : NearSegment(p, stroke[k], stroke[k + 1], width)

\* C30: strokes are rasterized with a fixed width of 4 for Pen regardless of the
\* configured brushSize, and with width brushSize for Brush; a stroke with no points
\* is skipped and contributes nothing to the mask.
C30_StrokeWidth ==
    ( /\ Painted /\ img1 # NoImg /\ maskConfig.opacity > 0
      /\ maskConfig.type \in {"Pen", "Brush"} ) =>
        \A p \in Pixels :
            ( /\ InBuffer(p, canvasSize.width, canvasSize.height)
              /\ ~ShapeCovers(maskConfig, canvasSize.width, canvasSize.height, p)
              \* the foreground can be told from the background at p
              /\ ForegroundAt(p).c # BackgroundAt(p)[1].c ) =>
                ( ShowsForeground(p) <=>
                      OnStrokes(p, IF maskConfig.type = "Pen" THEN 4 ELSE maskConfig.brushSize) )

\* a Pen line from (100, 150) to (110, 150): one pixel off the line is painted, eight
\* pixels off is not, though brushSize is 20
C30_Witness ==
    /\ Painted /\ img1 = FileA /\ maskConfig.type = "Pen" /\ maskConfig.brushSize = 20
    /\ heap = << << Pt(100, 150), Pt(110, 150) >> >>
    /\ maskConfig.brushPoints = << 1 >>
    /\ ~ShapeCovers(maskConfig, canvasSize.width, canvasSize.height, Pt(105, 151))
    /\ ShowsForeground(Pt(105, 151)) /\ ~ShowsForeground(Pt(105, 158))

\* C27: fit-to-screen sets the camera scale to min(availableWidth / contentWidth,
\* availableHeight / contentHeight, 1), so the scale after a fit is never above 1, and
\* sets translate so the content at that scale is centred in the window:
\* translate = (window size - content size * scale) / 2 on each axis.
C27_FitToScreen ==
    [][ Handled("fit") =>
            LET fit == Min2(Min2(RDiv((WinW - 48) * 1000, canvasSize.width),
                                 RDiv((WinH - 140) * 1000, canvasSize.height)), 1000)
            IN  /\ transform'.scale = fit
                /\ transform'.scale <= 1000
                /\ transform'.x = RDiv(WinW * 1000 - canvasSize.width * transform'.scale, 2000)
                /\ transform'.y = RDiv(WinH * 1000 - canvasSize.height * transform'.scale, 2000)
      ]_vars

\* a fit of the 400x300 canvas after zooming in: the content would fit 2.2 times,
\* the scale is 1
C27_Witness ==
    /\ last.op = "fit" /\ canvasSize = [width |-> 400, height |-> 300]
    /\ transform = [x |-> 300, y |-> 250, scale |-> 1000]
    /\ transformRef.scale > 1000

\* C28: center-view leaves the camera scale unchanged and sets translate to
\* (window size - canvas size * current scale) / 2 on each axis; it changes nothing in
\* the mask configuration or history.
C28_CenterView ==
    [][ Handled("center") =>
            /\ transform'.scale = transform.scale
            /\ transform'.x = RDiv(WinW * 1000 - canvasSize.width * transform.scale, 2000)
            /\ transform'.y = RDiv(WinH * 1000 - canvasSize.height * transform.scale, 2000)
            /\ maskConfig' = maskConfig /\ heap' = heap
            /\ past' = past /\ future' = future
      ]_vars

\* center-view at scale 1.25 of the 400x300 canvas, with a checkpoint in history
C28_Witness ==
    /\ last.op = "center" /\ canvasSize = [width |-> 400, height |-> 300]
    /\ transform = [x |-> 250, y |-> 213, scale |-> 1250]
    /\ Len(past) = 1

\* C29: the zoom-in button sets the camera scale to min(scale * 1.25, 20) and the
\* zoom-out button to max(scale * 0.8, 0.05), both leaving translate unchanged; when
\* neither clamp applies, zoom-in followed by zoom-out returns the camera to its
\* original scale.
C29_ZoomButtons ==
    [][ /\ Handled("zoomIn") =>
              /\ transform'.scale = Min2(RDiv(transform.scale * 125, 100), 20000)
              /\ transform'.x = transform.x /\ transform'.y = transform.y
        /\ Handled("zoomOut") =>
              /\ transform'.scale = Max2(RDiv(transform.scale * 8, 10), 50)
              /\ transform'.x = transform.x /\ transform'.y = transform.y
        /\ ( /\ Handled("zoomOut") /\ last.op = "zoomIn"
             /\ last.n * 125 <= 20000 * 100 /\ transform.scale * 8 >= 50 * 10 ) =>
              transform'.scale = last.n
      ]_vars

\* zoom-in from 1 to 1.25, then zoom-out back to 1
C29_Witness ==
    /\ last.op = "zoomOut" /\ transform.scale = 1000 /\ transformRef.scale = 1250

\* C31: shape None (and Pan/Hand) rasterizes to an empty mask: with a foreground
\* loaded, shape None and no strokes, no foreground pixel is visible and the
\* compositor output equals the background layer alone.
C31_NoneIsEmpty ==
    ( /\ Painted /\ img1 # NoImg
      /\ maskConfig.shape \in {"None", "Hand"} /\ maskConfig.brushPoints = << >> ) =>
        \A p \in Pixels :
            InBuffer(p, canvasSize.width, canvasSize.height) =>
                canvas.data[p] = BackgroundAt(p)

\* the Pen tool selected on the 400x300 foreground, nothing drawn yet: the
\* checkerboard at the centre
C31_Witness ==
    /\ Painted /\ img1 = FileA /\ img2 = NoImg /\ last.op = "select"
    /\ maskConfig.type = "Pen"
    /\ maskConfig.shape = "None" /\ maskConfig.brushPoints = << >>
    /\ maskConfig.opacity = 100
    /\ canvas.data[Pt(200, 150)] = << Paint(Fill("#1e293b"), 100) >>

\* the pointers are where they were when the gesture baseline was captured
PointersAtBaseline ==
    /\ gestureStart.set
    /\ gestureStart.center = getCentroid(pointers).center
    /\ gestureStart.distance = getCentroid(pointers).distance

\* C32: pan/pinch is continuous across baseline recomputation: a pointer-move that
\* reports the position already recorded for that pointer, with no pointer having
\* moved since the baseline was captured, leaves the camera transform unchanged (one
\* pointer in Pan mode, or two or more pointers in any mode), from every reachable
\* camera state.
C32_ZeroMoveKeepsCamera ==
    [][ ( /\ Handled("move")
          /\ last'.id \in DOMAIN pointers /\ last'.p = pointers[last'.id]
          /\ PointersAtBaseline
          /\ \/ Cardinality(DOMAIN pointers) = 1 /\ maskConfig.type = "Hand"
             \/ Cardinality(DOMAIN pointers) >= 2 ) =>
            transform' = transform
      ]_vars

\* C33: a pointer-move with exactly one active pointer in Pan mode changes only the
\* camera translate: the camera scale after the move equals the camera scale
\* immediately before the move, also when a wheel zoom, a zoom button press or a
\* double-tap zoom changed the camera after that pointer went down.
C33_PanKeepsScale ==
    [][ ( /\ Handled("move")
          /\ DOMAIN pointers = {last'.id}
          /\ maskConfig.type = "Hand" ) =>
            transform'.scale = transform.scale
      ]_vars

\* C34: camera handlers always compute from the most recently set camera transform:
\* two wheel events handled one after the other compose, i.e. the second multiplies
\* and clamps the scale the first one set and keeps its focal point under the camera
\* the first one set, never the camera from before the first.
C34_WheelsCompose ==
    [][ ( /\ Handled("wheel") /\ last.op = "wheel"
          /\ last.n # 0 /\ last'.n # 0
          /\ ~(isGenerating \/ showGenModal) ) =>
            /\ transform'.scale =
                   ClampScale(RDiv(transform.scale
                                     * (IF last'.n < 0 THEN ZoomInMult ELSE ZoomOutMult),
                                   1000))
            /\ WorldPointKept(transform, last'.p, transform', last'.p, 1)
      ]_vars

\* C35: history snapshots have value semantics: once a configuration is pushed onto
\* past or future, every field of that entry, including every point of every stroke,
\* keeps the value it had at push time in all later states.  (past grows and shrinks
\* at its end and future at its front: the entries that stay are the first ones of
\* past and the last ones of future.)
C35_SnapshotsKeepValue ==
    [][ /\ \A i \in 1..Min2(Len(past), Len(past')) :
               Deref(past'[i], heap') = Deref(past[i], heap)
        /\ \A j \in 0..(Min2(Len(future), Len(future')) - 1) :
               Deref(future'[Len(future') - j], heap') = Deref(future[Len(future) - j], heap)
      ]_vars

\* C36: in every reachable state of the live configuration, strokes is non-empty only
\* if shape is None: a filled geometric shape and freehand strokes never coexist,
\* after any sequence of tool selections, drawing, clear-mask, undo and redo.
C36_StrokesOnlyWithNone ==
    maskConfig.brushPoints # << >> => maskConfig.shape = "None"

\* a stroke drawn, undone and brought back by redo
C36_Witness ==
    /\ last.op = "redo" /\ maskConfig.brushPoints # << >>
    /\ maskConfig.shape = "None"
    /\ \E i \in DOMAIN past : past[i].shape = "Circle"

\* C37: whenever a foreground image is loaded, the canvas size equals that image's
\* width and height, after any sequence of uploads, layer swaps, upscales of either
\* layer and background generations, in whatever order the decodings complete.
C37_CanvasIsForeground ==
    img1 # NoImg => canvasSize = [width |-> img1.w, height |-> img1.h]

\* an AI call of the given kind is in flight: awaited, or its result decoding
InFlight(kind) == \E i \in DOMAIN tasks : tasks[i].kind = kind

\* C38: every started upscale or background generation eventually clears its
\* in-progress indicator once its call has settled: an upscale indicator that is
\* set while no upscale is in flight any more is eventually null again, and
\* isGenerating that is set while no generation is in flight any more is
\* eventually false again
C38_IndicatorsClear ==
    /\ (upscalingLayer # 0 /\ ~InFlight("upscale")) ~> (upscalingLayer = 0)
    /\ (isGenerating /\ ~InFlight("generate")) ~> ~isGenerating

\* C39: the upscale indicator is non-null in every state in which at least one
\* upscale request is still in flight
C39_IndicatorWhileInFlight == InFlight("upscale") => upscalingLayer # 0

\* the mask the render effect rasterizes from the state, at p, in percent
RenderedMask(cfg, hp, size, p) == MaskAlpha(Deref(cfg, hp), size.width, size.height, p)

\* C40: switching the interaction mode to Pan (Hand) does not change the rendered
\* mask: shape, transform and strokes are kept and the mask rasterized from them,
\* stroke width included, is the same before and after the switch
C40_PanKeepsMask ==
    [][ (Handled("select") /\ last'.s = "Hand") =>
            /\ maskConfig'.shape = maskConfig.shape
            /\ maskConfig'.brushPoints = maskConfig.brushPoints
            /\ heap' = heap
            /\ \A k \in {"x", "y", "scale", "rotation", "brushSize"} :
                   maskConfig'[k] = maskConfig[k]
            /\ \A p \in Pixels :
                   RenderedMask(maskConfig', heap', canvasSize', p)
                       = RenderedMask(maskConfig, heap, canvasSize, p) ]_vars

=============================================================================
